---- MODULE Spec2Model ----
(***************************************************************************)
(* A model of the ETF daily-briefing pipeline: the batch runners           *)
(* (main.run_scraper, ETFScraperScheduler.run_scraper), the sequential     *)
(* orchestrator (ETFScraper.scrape_all_tickers), the extractor             *)
(* (ETFScraper.get_zum_briefing) and the chunking of the delivery          *)
(* formatter (telegram_sender.send_html_content).                          *)
(*                                                                         *)
(* Strings the program builds are modelled as sequences of tokens (the     *)
(* literal pieces an f-string puts together); the text that is cut into    *)
(* chunks is modelled as a sequence of segments, each a range of character *)
(* positions of a named source text, so that slicing and concatenation are *)
(* computed position by position.  Korean literals are written in English. *)
(***************************************************************************)
EXTENDS Integers, Sequences, FiniteSets, TLC

VARIABLES
    \* ---- the batch run (main.run_scraper / ETFScraperScheduler.run_scraper)
    entry,        \* "main" or "scheduler": which run_scraper is running
    submitted,    \* the tickers argument: [given |-> BOOLEAN, list |-> Seq]
    tickers,      \* the list handed to scrape_all_tickers
    pc,           \* position of the runner
    session,      \* the browser session: "none", "open", "closed"
    idx,          \* scrape_all_tickers: index of the ticker being processed
    phase,        \* position inside the processing of that ticker
    now,          \* seconds since the aggregate wait_for was armed (0 once it is over)
    tstart,       \* value of now when the current ticker was started
    results,      \* the results list (of scrape_all_tickers, then of the runner)
    kept,         \* results scrape_all_tickers had built when it was cancelled
    timedOut,     \* the aggregate timeout fired
    sent,         \* what was handed to the delivery channel, in order
    outcome,      \* how run_scraper ended: "none", "True", "False", "None", "raised"
    \* ---- one call of get_zum_briefing on an arbitrary page
    xTicker, xPage, xFault, xResult, xpc,
    \* ---- one call of send_html_content (chunking and sending)
    cTicker, full_message, messages, remaining_text, ci, payloads, success, cpc,
    \* ---- the delivery of a finished batch (main.run_scraper lines 63-91)
    dResults,     \* what is delivered: [ticker, len (of the formatted body), links]
    dIdx,         \* index of the result being delivered
    dCount,       \* number of chunks of the result being delivered
    dChunk,       \* index (from 0) of the next chunk to send
    dFailed,      \* indices of the results whose formatting raised
    dLog,         \* the send_message calls made, in order, with their outcomes
    dReturn,      \* the value run_scraper returns: "none" until it returns
    dpc,          \* position of the delivery
    \* ---- the normalization of one news link, applied twice
    lTicker,      \* the ticker whose page the link comes from
    lWhich,       \* "scraper" (extract_news_links) or "telegram" (send_html_content)
    lLink,        \* the candidate link
    lOnce,        \* the link normalized once
    lTwice,       \* the normalized link normalized again
    lpc,
    \* ---- the parsing of one constituent mention (scraper.py lines 216-289)
    mInput,       \* the stock item: the layout of its briefing text and its values
    mParsed,      \* what the parsing yields: [skipped, name, price, change, header]
    mpc,
    \* ---- one call of send_message (telegram_sender.py lines 35-115)
    sText,        \* message_text, a sequence of characters
    sMode,        \* parse_mode: "HTML", "Markdown" or "None"
    sConfigured,  \* BOT_TOKEN and CHAT_ID are both set
    sRequests,    \* the requests posted, in order: [text, parse_mode]
    sResponses,   \* how each request ended: "ok", "rejected" or "raised"
    sReturn,      \* the value returned: "none" until the call returns
    spc,
    \* ---- one call of send_briefing_as_image (telegram_sender.py lines 720-770)
    iItem,        \* the briefing: [ticker, len (of the formatted body), links]
    iPhotoOk,     \* image_success, the result of send_photo
    iFallback,    \* send_html_content was called
    iCount,       \* send_html_content: the number of chunks
    iChunk,       \* send_html_content: index (from 0) of the next chunk
    iSuccess,     \* send_html_content: its success flag
    iLog,         \* the channel calls made, in order: [kind, ok]
    iReturn,      \* the value returned: "none" until the call returns
    ipc,
    \* ---- the links message of send_html_content (telegram_sender.py lines 281-293)
    kTicker,
    kLinks,       \* links: the length of each collected link, in order
    kText,        \* links_text: [len, truncated], <<>> before it is built
    kSent,        \* the lengths of the payloads given to send_message
    kpc,
    \* ---- the sanitizer of send_html_content (telegram_sender.py lines 214-245)
    zBody,        \* target.get_text(): a sequence of tokens
    zLines,       \* the lines the loop has still to look at
    zClean,       \* clean_lines
    zText,        \* body_text after the join, <<>> before
    zpc,
    \* ---- the hand-over of one result to the formatter (main.py lines 71-75)
    hResult,      \* the scrape result: a sequence of tokens
    hTicker,      \* ticker
    hBody,        \* html_content
    hpc

batchVars == <<entry, submitted, tickers, pc, session, idx, phase, now, tstart,
               results, kept, timedOut, sent, outcome>>
extractVars == <<xTicker, xPage, xFault, xResult, xpc>>
chunkVars == <<cTicker, full_message, messages, remaining_text, ci, payloads,
               success, cpc>>
deliverVars == <<dResults, dIdx, dCount, dChunk, dFailed, dLog, dReturn, dpc>>
linkVars == <<lTicker, lWhich, lLink, lOnce, lTwice, lpc>>
mentionVars == <<mInput, mParsed, mpc>>
sendVars == <<sText, sMode, sConfigured, sRequests, sResponses, sReturn, spc>>
imageVars == <<iItem, iPhotoOk, iFallback, iCount, iChunk, iSuccess, iLog, iReturn, ipc>>
blockVars == <<kTicker, kLinks, kText, kSent, kpc>>
cleanVars == <<zBody, zLines, zClean, zText, zpc>>
handVars == <<hResult, hTicker, hBody, hpc>>
lateVars == <<blockVars, cleanVars, handVars>>
moreVars == <<deliverVars, linkVars, mentionVars, sendVars, imageVars, lateVars>>
vars == <<batchVars, extractVars, chunkVars, moreVars>>

(***************************************************************************)
(* Bounds of the model.                                                    *)
(***************************************************************************)
MaxLen == 3        \* longest submitted list in the ordering specification
MaxBatch == 2      \* longest explicit list in the batch specification
FastLoad == 1      \* seconds of a page load that answers at once
SlowLoad == 33     \* seconds of a page load that hangs
SlowExtract == 31  \* seconds of a slow snapshot/parse/script step
MaxBody == 6100    \* longest sanitized body handed to the chunker
MaxDeliver == 2    \* most results in the delivery specification
ShortBody == 100   \* length of a formatted body that fits one chunk
LongBody == 3100   \* length of a formatted body that needs a second chunk
MaxMsg == 4        \* longest message text handed to send_message
MaxLinks == 8      \* most links of one links message
ShortLink == 265   \* length of a link with a short address
LongLink == 700    \* length of a link with a long address
MaxTokens == 4     \* most tokens of a text given to the sanitizer
MaxNarrative == 4  \* most tokens of the briefing of a result handed over

(***************************************************************************)
(* Program constants.                                                      *)
(***************************************************************************)
PER_TICKER_TIMEOUT == 30
AGGREGATE_TIMEOUT == 120
PACING_DELAY == 2
MAX_LENGTH == 3000

default_order == <<"IGV", "SOXL", "BLK", "IVZ", "BRKU">>
TICKERS == <<"IGV", "SOXL", "BLK", "IVZ", "BRKU">>

\* Tickers outside the canonical list, used as inputs.
Unknown == {"QQQ", "ARKK"}
Universe == {default_order[i] : i \in 1..Len(default_order)} \cup Unknown

(***************************************************************************)
(* Helpers on sequences.                                                   *)
(***************************************************************************)
Range(s) == {s[i] : i \in 1..Len(s)}

SeqsUpTo(S, n) == UNION {[1..k -> S] : k \in 0..n}

NoRepeat(s) == \A i, j \in 1..Len(s) : i # j => s[i] # s[j]

Max2(a, b) == IF a >= b THEN a ELSE b

\* list.index(x): 0-based position of the first occurrence.
IndexOf(s, x) == (CHOOSE i \in 1..Len(s) : s[i] = x /\ \A j \in 1..(i-1) : s[j] # x) - 1

(***************************************************************************)
(* main.run_scraper, line 51: sorted(tickers, key=...).  Python's sorted   *)
(* is stable: an insertion sort that puts each element after every element *)
(* whose key is less than or equal to its own.                             *)
(***************************************************************************)
SortKeyUnknownFirst(x) == IF x \in Range(default_order) THEN IndexOf(default_order, x) ELSE 0

SortKey(x) == IF x \in Range(default_order) THEN IndexOf(default_order, x) ELSE Len(default_order)

RECURSIVE InsertByKey(_, _)
InsertByKey(x, s) ==
    IF s = <<>> THEN <<x>>
    ELSE IF SortKey(x) < SortKey(Head(s)) THEN <<x>> \o s
    ELSE <<Head(s)>> \o InsertByKey(x, Tail(s))

RECURSIVE SortedByKey(_)
SortedByKey(s) ==
    IF s = <<>> THEN <<>>
    ELSE InsertByKey(s[Len(s)], SortedByKey(SubSeq(s, 1, Len(s) - 1)))

\* main.run_scraper, lines 46-51.
MainTickers(sub) == IF ~sub.given THEN default_order ELSE SortedByKey(sub.list)

\* ETFScraperScheduler.__init__, line 29: tickers or TICKERS (an empty list
\* is falsy), handed unchanged to scrape_all_tickers at line 44.
SchedulerTickers(sub) == IF ~sub.given \/ sub.list = <<>> THEN TICKERS ELSE sub.list

(***************************************************************************)
(* Result strings.  A result is the sequence of the pieces its f-string    *)
(* joins; ":" is the colon that follows the ticker.                        *)
(***************************************************************************)
\* scraper.py line 435: f"{ticker}:\n{briefing}"
BriefingResult(t, briefing) == <<t, ":", "\n">> \o briefing

\* scraper.py line 438: f"{ticker}: (no briefing)"
EmptyResult(t) == <<t, ":", " no briefing">>

\* scraper.py line 442: f"{ticker}: error - {str(e)}"
ErrorResult(t, msg) == <<t, ":", " error - ", msg>>

\* The section of a ticker's page as get_zum_briefing (lines 86-91) and
\* extract_news_links (line 564) compute it.
FetchSection(t) == IF t \in {"BLK", "IVZ"} THEN "stock" ELSE "etf"

\* The section as the aggregate-timeout fallback computes it
\* (main.py line 98, scheduler.py lines 97-98).
FallbackSection(t) == IF t \in {"IGV", "SOXL", "BRKU"} THEN "etf" ELSE "stock"

\* scraper.py lines 470-476: the fallback exists for IGV and for SOXL.
PerTickerFallback(t) ==
    <<t, ":", "\n", "daily briefing", "\n\n",
      IF t = "IGV" THEN "ISHARES TRUST EXPANDED TECH-SOFTWARE SECTOR ETF"
                   ELSE "DIREXION SHARES ETF TRUST DAILY SEMICONDUCTOR BULL 3X SHS",
      " briefing timed out. check manually: ",
      "https://invest.zum.com/", "etf", "/", t, "/">>

\* main.py line 98, scheduler.py line 99.
AggregateFallback(t) ==
    <<t, ":", "\n", "daily briefing", "\n\n",
      "timed out, briefing not fetched. check manually: ",
      "https://invest.zum.com/", FallbackSection(t), "/", t, "/">>

\* A result ends in a manual-check URL of section sec for ticker t.
EndsInUrl(r, sec, t) ==
    /\ Len(r) >= 5
    /\ SubSeq(r, Len(r) - 4, Len(r)) = <<"https://invest.zum.com/", sec, "/", t, "/">>

IsTimeoutText(r) == \E i \in 1..Len(r) : r[i] \in
    {" briefing timed out. check manually: ",
     "timed out, briefing not fetched. check manually: "}

(***************************************************************************)
(* ETFScraper.get_zum_briefing as a function of the ticker, the rendered   *)
(* page and the step (if any) at which an exception is raised.             *)
(*                                                                         *)
(* A page records what each extraction strategy finds:                     *)
(*   h3   the heading that contains "daily briefing" (line 129):           *)
(*        "absent"; "noDiv" (no div ancestor: find_parent returns None and *)
(*        the chained call raises); "orphan" (one div ancestor only: the   *)
(*        section is None); "paras" (the section has direct <p> children); *)
(*        "text" / "blank" (no <p>; its text is / is not empty)            *)
(*   c1   div.styles_briefingInner__8_73I (line 138)                       *)
(*   c2   div.styles_briefingInner__WBq3C (line 142)                       *)
(*   gen  a div whose string holds "2025" or "%" (line 182)                *)
(*        each "absent" or the kind of its text: "blank", "text" (no date  *)
(*        marker), "dateFirst" (begins with the marker "2025<year>"),      *)
(*        "dateMid" (the marker follows some text)                         *)
(*   items  "none" or "some": stock item containers (line 212)             *)
(*   links  "none" or "some": links returned by the page scripts           *)
(*   year   the year of the run date (the gap-fill text begins with it)    *)
(***************************************************************************)
H3Kinds == {"absent", "noDiv", "orphan", "paras", "text", "blank"}
TextKinds == {"blank", "text", "dateFirst", "dateMid"}
Years == {2025, 2026}

Pages == [h3 : H3Kinds,
          c1 : {"absent"} \cup TextKinds,
          c2 : {"absent"} \cup TextKinds,
          gen : {"absent", "text", "dateFirst", "dateMid"},
          items : {"none", "some"},
          links : {"none", "some"},
          year : Years]

Faults == {"none", "load", "snapshot", "parse", "gapfill", "item", "links", "compose"}

\* Lines 129-131: the section found by the primary heading match.
PrimaryFound(page) == page.h3 \in {"paras", "text", "blank"}

\* Lines 145-178: the gap-fill branch runs.
GapFillRuns(t, page) ==
    /\ ~PrimaryFound(page)
    /\ page.c1 = "absent"
    /\ t \in {"BLK", "IVZ"}
    /\ page.c2 = "blank"

\* A chain in which a known container without text lets the next strategy run.
AltKindFallsThrough(t, page) ==
    IF page.c1 \notin {"absent", "blank"} THEN page.c1
    ELSE IF t \in {"BLK", "IVZ"} /\ page.c2 \notin {"absent", "blank"} THEN page.c2
    ELSE page.gen

\* Lines 136-182: the kind of text of alt_briefing, "absent" if none is found.
\* A found container is truthy even when its text is empty, so the generic
\* search of line 182 runs only when no known container exists.
AltKind(t, page) ==
    IF page.c1 # "absent" THEN page.c1
    ELSE IF t \in {"BLK", "IVZ"} /\ page.c2 # "absent"
         THEN (IF page.c2 = "blank"
               THEN (IF page.year = 2025 THEN "dateFirst" ELSE "gapfill")
               ELSE page.c2)
    ELSE page.gen

\* Lines 185-202: briefing_text after the cut at the first date marker
\* ("none" when it is empty).
AltText(t, page) ==
    LET k == AltKind(t, page)
    IN  CASE k \in {"absent", "blank", "dateFirst"} -> "none"
          [] k = "dateMid" -> "text-before-date"
          [] k = "gapfill" -> "gapfill-sentence"
          [] OTHER -> "main-text"

\* Whether the step named by fault is executed on this page (an exception
\* can only be raised by a step that runs).
FaultHits(t, page, fault) ==
    CASE fault = "none" -> FALSE
      [] fault \in {"load", "snapshot", "parse"} -> TRUE
      [] fault = "gapfill" -> GapFillRuns(t, page)
      [] fault = "links" -> ~PrimaryFound(page) /\ page.h3 # "noDiv"
                              /\ AltKind(t, page) # "absent"
      [] fault = "item" -> ~PrimaryFound(page) /\ page.h3 # "noDiv"
                             /\ AltKind(t, page) # "absent" /\ page.items = "some"
      [] fault = "compose" -> page.h3 # "noDiv"
                                /\ (PrimaryFound(page) \/ AltText(t, page) # "none")
      [] OTHER -> FALSE

\* The briefing composed on the fallback path (lines 204-415): the main text,
\* then the mention blocks and news items of the stock items whose parsing
\* did not raise (lines 214-325: an exception inside one item is logged and
\* the item skipped), then the script-extracted links (extract_news_links
\* returns [] when it fails, lines 588-590).
AltBriefing(t, page, fault) ==
    <<AltText(t, page)>>
    \o (IF page.items = "some" /\ fault # "item" THEN <<"mention-block", "news-item">> ELSE <<>>)
    \o (IF page.links = "some" /\ fault # "links" THEN <<"news-links">> ELSE <<>>)

\* Lines 75-442.
GetZumBriefing(t, page, fault) ==
    IF FaultHits(t, page, fault) /\ fault \notin {"item", "links"}
    THEN ErrorResult(t, fault)                                \* lines 440-442
    ELSE IF page.h3 = "noDiv" THEN ErrorResult(t, "AttributeError")  \* line 130
    ELSE IF PrimaryFound(page)
    THEN (CASE page.h3 = "paras" -> BriefingResult(t, <<"numbered-paragraphs">>)
            [] page.h3 = "text" -> BriefingResult(t, <<"section-text">>)
            [] OTHER -> EmptyResult(t))                       \* lines 421-438
    ELSE IF AltText(t, page) = "none" THEN EmptyResult(t)     \* lines 416-419, 438
    ELSE BriefingResult(t, AltBriefing(t, page, fault))       \* lines 328-435

IsError(r) == Len(r) >= 3 /\ r[3] = " error - "
IsEmpty(r) == r = EmptyResult(r[1])

(***************************************************************************)
(* The batch run.                                                          *)
(***************************************************************************)
\* scraper.py line 462: the tickers whose fetch is wrapped in wait_for.
Wrapped(t) == t \in {"IGV", "SOXL"}

\* scraper.py lines 105-107: the settle delay after the page load.
WaitTime(t) == IF t = "IGV" THEN 3 ELSE IF t \in {"BLK", "IVZ"} THEN 5 ELSE 2

\* scraper.py lines 466-476: what the handler of the per-ticker TimeoutError
\* leaves in results.
PerTickerTimeoutOnlyIGV(t, res) ==
    IF t = "IGV" THEN Append(res, PerTickerFallback(t)) ELSE res

PerTickerTimeoutResults(t, res) ==
    IF t = "IGV" THEN Append(res, PerTickerFallback(t))
    ELSE IF t = "SOXL" THEN Append(res, PerTickerFallback(t))
    ELSE res

\* main.py lines 96-99, scheduler.py lines 95-100: the results list of the
\* aggregate-timeout handler, built from the ticker list alone; done is what
\* scrape_all_tickers had appended to its own list, which is lost with the
\* cancelled call.
RunScraperFallbacksKeepingDone(tks, done) ==
    [i \in 1..Len(tks) |-> IF i <= Len(done) THEN done[i] ELSE AggregateFallback(tks[i])]

RunScraperFallbacks(tks, done) == [i \in 1..Len(tks) |-> AggregateFallback(tks[i])]

\* result.split(':')[0].strip() (main.py line 72, scheduler.py line 70).
FirstColon(r) == CHOOSE i \in 1..(Len(r) + 1) :
    /\ (i <= Len(r) => r[i] = ":")
    /\ \A j \in 1..(i - 1) : r[j] # ":"

SplitTicker(r) == SubSeq(r, 1, FirstColon(r) - 1)

\* result.replace(f"{ticker}:", "") (main.py line 73, scheduler.py line 73):
\* every occurrence of the ticker followed by a colon is removed.
RECURSIVE ReplaceAll(_, _)
ReplaceAll(r, pat) ==
    IF Len(r) < Len(pat) \/ pat = <<>> THEN r
    ELSE IF SubSeq(r, 1, Len(pat)) = pat
         THEN ReplaceAll(SubSeq(r, Len(pat) + 1, Len(r)), pat)
         ELSE <<Head(r)>> \o ReplaceAll(Tail(r), pat)

\* The timers that can interrupt the ticker being processed at an await:
\* the aggregate wait_for (main.py line 58, scheduler.py line 43) and, for a
\* wrapped ticker that has not returned yet, its own wait_for (scraper.py
\* line 464).  A timer acts only when the event loop runs, that is when the
\* running coroutine is suspended in asyncio.sleep.
Timers(t, inner) ==
    {[at |-> AGGREGATE_TIMEOUT, which |-> "aggregate"]}
    \cup (IF inner /\ Wrapped(t)
          THEN {[at |-> tstart + PER_TICKER_TIMEOUT, which |-> "ticker"]}
          ELSE {})

\* The timers that go off no later than the end of a sleep, earliest first.
FirstDue(t, inner, end) ==
    LET due == {d \in Timers(t, inner) : d.at <= end}
    IN  {d \in due : \A e \in due : d.at <= e.at}

SleepCompletes(t, inner, end) == \A d \in Timers(t, inner) : d.at >= end

BatchUniverse == {"IGV", "BLK", "QQQ"}

BatchInputs ==
    {[given |-> FALSE, list |-> <<>>]}
    \cup {[given |-> TRUE, list |-> s] : s \in {q \in SeqsUpTo(BatchUniverse, MaxBatch) : NoRepeat(q)}}

\* The pages the batch specification feeds the extractor.
ParasPage == [h3 |-> "paras", c1 |-> "absent", c2 |-> "absent", gen |-> "absent",
              items |-> "none", links |-> "none", year |-> 2026]
BarePage == [h3 |-> "absent", c1 |-> "absent", c2 |-> "absent", gen |-> "absent",
             items |-> "none", links |-> "none", year |-> 2026]
BatchPages == {ParasPage, BarePage}
BatchFaults == {"none", "parse"}

IdleExtract ==
    /\ xTicker = "" /\ xPage = BarePage /\ xFault = "none" /\ xResult = <<>> /\ xpc = "idle"

IdleChunk ==
    /\ cTicker = "" /\ full_message = <<>> /\ messages = <<>> /\ remaining_text = <<>>
    /\ ci = 0 /\ payloads = <<>> /\ success = TRUE /\ cpc = "idle"

IdleBatch ==
    /\ tickers = <<>> /\ pc = "init" /\ session = "none" /\ idx = 0 /\ phase = "idle"
    /\ now = 0 /\ tstart = 0 /\ results = <<>> /\ kept = <<>>
    /\ timedOut = FALSE /\ sent = <<>> /\ outcome = "none"

IdleDeliver ==
    /\ dResults = <<>> /\ dIdx = 0 /\ dCount = 0 /\ dChunk = 0 /\ dFailed = {}
    /\ dLog = <<>> /\ dReturn = "none" /\ dpc = "idle"

IdleLink ==
    /\ lTicker = "" /\ lWhich = "" /\ lLink = <<>> /\ lOnce = <<>> /\ lTwice = <<>>
    /\ lpc = "idle"

IdleMention == mInput = <<>> /\ mParsed = <<>> /\ mpc = "idle"

IdleSend ==
    /\ sText = <<>> /\ sMode = "None" /\ sConfigured = FALSE /\ sRequests = <<>>
    /\ sResponses = <<>> /\ sReturn = "none" /\ spc = "idle"

IdleImage ==
    /\ iItem = <<>> /\ iPhotoOk = FALSE /\ iFallback = FALSE /\ iCount = 0 /\ iChunk = 0
    /\ iSuccess = TRUE /\ iLog = <<>> /\ iReturn = "none" /\ ipc = "idle"

IdleBlock == kTicker = "" /\ kLinks = <<>> /\ kText = <<>> /\ kSent = <<>> /\ kpc = "idle"

IdleClean == zBody = <<>> /\ zLines = <<>> /\ zClean = <<>> /\ zText = <<>> /\ zpc = "idle"

IdleHand == hResult = <<>> /\ hTicker = <<>> /\ hBody = <<>> /\ hpc = "idle"

IdleLate == IdleBlock /\ IdleClean /\ IdleHand

IdleMore == IdleDeliver /\ IdleLink /\ IdleMention /\ IdleSend /\ IdleImage /\ IdleLate

Init ==
    /\ entry \in {"main", "scheduler"}
    /\ submitted \in BatchInputs
    /\ IdleBatch /\ IdleExtract /\ IdleChunk /\ IdleMore

Cur == tickers[idx]

\* main.py lines 45-53; scheduler.py lines 29, 36.
StartRun ==
    /\ pc = "init"
    /\ tickers' = IF entry = "main" THEN MainTickers(submitted) ELSE SchedulerTickers(submitted)
    /\ pc' = "create"
    /\ UNCHANGED <<entry, submitted, session, idx, phase, now, tstart, results,
                   kept, timedOut, sent, outcome, extractVars, chunkVars, moreVars>>

\* main.py lines 57-59, scheduler.py lines 39-44: ETFScraper() succeeds and
\* scrape_all_tickers starts under the aggregate wait_for.
CreateSession ==
    /\ pc = "create"
    /\ session' = "open"
    /\ pc' = "scrape"
    /\ idx' = 1
    /\ phase' = IF tickers = <<>> THEN "return" ELSE "begin"
    /\ now' = 0
    /\ UNCHANGED <<entry, submitted, tickers, tstart, results, kept, timedOut,
                   sent, outcome, extractVars, chunkVars, moreVars>>

\* ETFScraper() raises (scraper.py line 73): the handler of main.py lines
\* 124-126 returns False, that of scheduler.py lines 136-137 logs; scraper is
\* still None, so the finally clause closes nothing.
CreateSessionFails ==
    /\ pc = "create"
    /\ pc' = "done"
    /\ outcome' = IF entry = "main" THEN "False" ELSE "None"
    /\ UNCHANGED <<entry, submitted, tickers, session, idx, phase, now, tstart, results,
                   kept, timedOut, sent, extractVars, chunkVars, moreVars>>

\* scraper.py lines 456-464, 479: the next ticker is taken.
BeginTicker ==
    /\ pc = "scrape" /\ phase = "begin"
    /\ tstart' = now
    /\ phase' = "load"
    /\ UNCHANGED <<entry, submitted, tickers, pc, session, idx, now, results,
                   kept, timedOut, sent, outcome, extractVars, chunkVars, moreVars>>

\* scraper.py lines 97-101: the blocking page load returns.
LoadPage ==
    /\ pc = "scrape" /\ phase = "load"
    /\ \E d \in {FastLoad, SlowLoad} : now' = now + d
    /\ phase' = "settle"
    /\ UNCHANGED <<entry, submitted, tickers, pc, session, idx, tstart, results,
                   kept, timedOut, sent, outcome, extractVars, chunkVars, moreVars>>

\* scraper.py lines 97-101, 440-442: the page load raises; get_zum_briefing
\* returns the error result without reaching an await.
LoadFails ==
    /\ pc = "scrape" /\ phase = "load"
    /\ \E d \in {FastLoad, SlowLoad} : now' = now + d
    /\ results' = Append(results, GetZumBriefing(Cur, BarePage, "load"))
    /\ phase' = "pace"
    /\ UNCHANGED <<entry, submitted, tickers, pc, session, idx, tstart, kept, timedOut,
                   sent, outcome, extractVars, chunkVars, moreVars>>

\* scraper.py line 109: the settle delay runs to its end.
SettleDone ==
    /\ pc = "scrape" /\ phase = "settle"
    /\ SleepCompletes(Cur, TRUE, now + WaitTime(Cur))
    /\ now' = now + WaitTime(Cur)
    /\ phase' = "extract"
    /\ UNCHANGED <<entry, submitted, tickers, pc, session, idx, tstart, results,
                   kept, timedOut, sent, outcome, extractVars, chunkVars, moreVars>>

\* scraper.py lines 464-476: the ticker's own wait_for cancels the call
\* during the settle delay.
PerTickerTimeout ==
    /\ pc = "scrape" /\ phase = "settle"
    /\ \E d \in FirstDue(Cur, TRUE, now + WaitTime(Cur)) :
        /\ d.which = "ticker"
        /\ now' = Max2(now, d.at)
    /\ results' = PerTickerTimeoutResults(Cur, results)
    /\ phase' = "pace"
    /\ UNCHANGED <<entry, submitted, tickers, pc, session, idx, tstart, kept, timedOut,
                   sent, outcome, extractVars, chunkVars, moreVars>>

\* scraper.py lines 112-438, 465, 480: snapshot, parse and composition run
\* without an await; the result is appended.
ExtractInterrupted ==
    /\ pc = "scrape" /\ phase = "extract"
    /\ \E d \in {0, SlowExtract} :
        /\ now' = now + d
        /\ \E page \in BatchPages, fault \in BatchFaults :
            results' = IF Wrapped(Cur) /\ now + d - tstart > PER_TICKER_TIMEOUT
                       THEN PerTickerTimeoutResults(Cur, results)
                       ELSE Append(results, GetZumBriefing(Cur, page, fault))
    /\ phase' = "pace"
    /\ UNCHANGED <<entry, submitted, tickers, pc, session, idx, tstart, kept, timedOut,
                   sent, outcome, extractVars, chunkVars, moreVars>>

Extract ==
    /\ pc = "scrape" /\ phase = "extract"
    /\ \E d \in {0, SlowExtract} : now' = now + d
    /\ \E page \in BatchPages, fault \in BatchFaults :
        results' = Append(results, GetZumBriefing(Cur, page, fault))
    /\ phase' = "pace"
    /\ UNCHANGED <<entry, submitted, tickers, pc, session, idx, tstart, kept, timedOut,
                   sent, outcome, extractVars, chunkVars, moreVars>>

\* scraper.py lines 484-486: an exception raised in the loop body outside the
\* extractor's own try statement reaches the handler of the orchestrator,
\* which appends an error result; the pacing delay of line 483 lies inside
\* the try block and is skipped, and the loop goes on at once.
OrchestratorCatches ==
    /\ pc = "scrape" /\ phase = "load"
    /\ results' = Append(results, ErrorResult(Cur, "exception"))
    /\ IF idx < Len(tickers)
       THEN idx' = idx + 1 /\ phase' = "begin"
       ELSE idx' = idx /\ phase' = "return"
    /\ UNCHANGED <<entry, submitted, tickers, pc, session, now, tstart, kept, timedOut,
                   sent, outcome, extractVars, chunkVars, moreVars>>

\* scraper.py line 483: the pacing delay runs to its end; the loop goes on.
PaceDone ==
    /\ pc = "scrape" /\ phase = "pace"
    /\ SleepCompletes(Cur, FALSE, now + PACING_DELAY)
    /\ now' = now + PACING_DELAY
    /\ IF idx < Len(tickers)
       THEN idx' = idx + 1 /\ phase' = "begin"
       ELSE idx' = idx /\ phase' = "return"
    /\ UNCHANGED <<entry, submitted, tickers, pc, session, tstart, results,
                   kept, timedOut, sent, outcome, extractVars, chunkVars, moreVars>>

\* main.py lines 93-99, scheduler.py lines 92-100: the aggregate wait_for
\* cancels scrape_all_tickers at the await it is suspended in and raises
\* TimeoutError; the handler builds the fallback results.
AggregateTimeout ==
    /\ pc = "scrape" /\ phase \in {"settle", "pace"}
    /\ \E d \in FirstDue(Cur, phase = "settle",
                         now + (IF phase = "settle" THEN WaitTime(Cur) ELSE PACING_DELAY)) :
        d.which = "aggregate"
    /\ kept' = results
    /\ timedOut' = TRUE
    /\ results' = RunScraperFallbacks(tickers, results)
    /\ pc' = "timeout_notice"
    /\ phase' = "idle"
    /\ now' = 0
    /\ tstart' = 0
    /\ idx' = 0
    /\ UNCHANGED <<entry, submitted, tickers, session, sent, outcome, extractVars,
                   chunkVars, moreVars>>

\* scraper.py line 488, main.py lines 58-61: scrape_all_tickers returns.
ScrapeReturns ==
    /\ pc = "scrape" /\ phase = "return"
    /\ pc' = "send_header"
    /\ phase' = "idle"
    /\ now' = 0
    /\ tstart' = 0
    /\ idx' = 0
    /\ UNCHANGED <<entry, submitted, tickers, session, results, kept, timedOut, sent,
                   outcome, extractVars, chunkVars, moreVars>>

\* main.py lines 66-69, scheduler.py lines 61-65.
SendHeader ==
    /\ pc = "send_header"
    /\ sent' = Append(sent, [kind |-> "message", ticker |-> <<>>, text |-> <<"briefing header">>])
    /\ pc' = "deliver"
    /\ idx' = 1
    /\ UNCHANGED <<entry, submitted, tickers, session, phase, now, tstart, results,
                   kept, timedOut, outcome, extractVars, chunkVars, moreVars>>

\* main.py lines 71-84, scheduler.py lines 68-85: one result is delivered.
DeliverResult ==
    /\ pc = "deliver" /\ idx <= Len(results)
    /\ LET ticker == SplitTicker(results[idx])
           html_content == ReplaceAll(results[idx], ticker \o <<":">>)
       IN  sent' = Append(sent, [kind |-> "html", ticker |-> ticker, text |-> html_content])
    /\ idx' = idx + 1
    /\ UNCHANGED <<entry, submitted, tickers, pc, session, phase, now, tstart, results,
                   kept, timedOut, outcome, extractVars, chunkVars, moreVars>>

\* main.py lines 86-87, scheduler.py line 87.
DeliveryDone ==
    /\ pc = "deliver" /\ idx > Len(results)
    /\ outcome' = IF entry = "main" THEN "True" ELSE "None"
    /\ pc' = "close"
    /\ UNCHANGED <<entry, submitted, tickers, session, idx, phase, now, tstart, results,
                   kept, timedOut, sent, extractVars, chunkVars, moreVars>>

\* main.py lines 89-91, scheduler.py lines 89-90: an exception raised while
\* delivering reaches the handler of the delivery block, which logs (and, in
\* main, returns False); the rest of the results is not delivered.
DeliveryRaises ==
    /\ pc = "deliver"
    /\ outcome' = IF entry = "main" THEN "False" ELSE "None"
    /\ pc' = "close"
    /\ UNCHANGED <<entry, submitted, tickers, session, idx, phase, now, tstart, results,
                   kept, timedOut, sent, extractVars, chunkVars, moreVars>>

\* main.py lines 102-112, scheduler.py lines 113-124.
TimeoutNotice ==
    /\ pc = "timeout_notice"
    /\ sent' = Append(sent, [kind |-> "message", ticker |-> <<>>,
                             text |-> <<"timeout notice, affected: ">> \o tickers])
    /\ pc' = "timeout_send"
    /\ idx' = 1
    /\ UNCHANGED <<entry, submitted, tickers, session, phase, now, tstart, results,
                   kept, timedOut, outcome, extractVars, chunkVars, moreVars>>

\* main.py lines 114-116, scheduler.py lines 127-129.
FallbackSend ==
    /\ pc = "timeout_send" /\ idx <= Len(results)
    /\ sent' = Append(sent, [kind |-> "message", ticker |-> SplitTicker(results[idx]),
                             text |-> results[idx]])
    /\ idx' = idx + 1
    /\ UNCHANGED <<entry, submitted, tickers, pc, session, phase, now, tstart, results,
                   kept, timedOut, outcome, extractVars, chunkVars, moreVars>>

\* main.py lines 118-122, scheduler.py line 131.
TimeoutReturn ==
    /\ pc = "timeout_send" /\ idx > Len(results)
    /\ outcome' = IF entry = "main" THEN "False" ELSE "None"
    /\ pc' = "close"
    /\ UNCHANGED <<entry, submitted, tickers, session, idx, phase, now, tstart, results,
                   kept, timedOut, sent, extractVars, chunkVars, moreVars>>

\* main.py lines 127-129, scheduler.py lines 138-141, scraper.py lines
\* 592-598: the finally clause closes the session and the pending return
\* value is returned.
CloseSessionSkipped ==
    /\ pc = "close"
    /\ session' = session
    /\ pc' = "done"
    /\ UNCHANGED <<entry, submitted, tickers, idx, phase, now, tstart, results,
                   kept, timedOut, sent, outcome, extractVars, chunkVars, moreVars>>

CloseSession ==
    /\ pc = "close"
    /\ session' = "closed"
    /\ pc' = "done"
    /\ UNCHANGED <<entry, submitted, tickers, idx, phase, now, tstart, results,
                   kept, timedOut, sent, outcome, extractVars, chunkVars, moreVars>>

\* scraper.py line 597: driver.quit() raises inside the finally clause; the
\* exception replaces the pending return value and leaves run_scraper.
CloseRaises ==
    /\ pc = "close"
    /\ session' = "closed"
    /\ outcome' = "raised"
    /\ pc' = "done"
    /\ UNCHANGED <<entry, submitted, tickers, idx, phase, now, tstart, results,
                   kept, timedOut, sent, extractVars, chunkVars, moreVars>>

Next ==
    \/ StartRun \/ CreateSession \/ CreateSessionFails
    \/ BeginTicker \/ LoadPage \/ LoadFails \/ SettleDone \/ PerTickerTimeout
    \/ Extract \/ OrchestratorCatches \/ PaceDone \/ AggregateTimeout \/ ScrapeReturns
    \/ SendHeader \/ DeliverResult \/ DeliveryDone \/ DeliveryRaises
    \/ TimeoutNotice \/ FallbackSend \/ TimeoutReturn
    \/ CloseSession \/ CloseRaises

Spec == Init /\ [][Next]_vars

(***************************************************************************)
(* The ordering of the submitted list alone, over every list of up to      *)
(* MaxLen tickers (repetitions included) of the universe.                  *)
(***************************************************************************)
OrderInputs ==
    {[given |-> FALSE, list |-> <<>>]}
    \cup {[given |-> TRUE, list |-> s] : s \in SeqsUpTo(Universe, MaxLen)}

InitOrder ==
    /\ entry \in {"main", "scheduler"}
    /\ submitted \in OrderInputs
    /\ IdleBatch /\ IdleExtract /\ IdleChunk /\ IdleMore

NextOrder == StartRun

SpecOrder == InitOrder /\ [][NextOrder]_vars

(***************************************************************************)
(* One call of get_zum_briefing, over every page, ticker and failing step. *)
(***************************************************************************)
ExtractTickers == {"IGV", "BLK", "IVZ", "QQQ"}

InitExtract ==
    /\ xTicker \in ExtractTickers
    /\ xPage \in Pages
    /\ xFault \in Faults
    /\ xResult = <<>>
    /\ xpc = "call"
    /\ entry = "main" /\ submitted = [given |-> FALSE, list |-> <<>>]
    /\ IdleBatch /\ IdleChunk /\ IdleMore

\* What the caller of get_zum_briefing gets: the returned string, or the
\* exception that leaves the function.  The try statement of line 96 encloses
\* every step from the page load on.
CallUnguardedLoad(t, page, fault) ==
    IF fault = "load" THEN <<"raised", fault>> ELSE GetZumBriefing(t, page, fault)

CallGetZumBriefing(t, page, fault) == GetZumBriefing(t, page, fault)

GetZumBriefingReturns ==
    /\ xpc = "call"
    /\ xResult' = CallGetZumBriefing(xTicker, xPage, xFault)
    /\ xpc' = "returned"
    /\ UNCHANGED <<xTicker, xPage, xFault, batchVars, chunkVars, moreVars>>

NextExtract == GetZumBriefingReturns

SpecExtract == InitExtract /\ [][NextExtract]_vars

(***************************************************************************)
(* Text that is sliced.  A text is a sequence of segments, each the range  *)
(* lo..hi of character positions of the source text src; two adjacent      *)
(* segments that continue each other are kept merged, so that equal texts  *)
(* have equal representations.                                             *)
(***************************************************************************)
Text(src, n) == IF n = 0 THEN <<>> ELSE <<[src |-> src, lo |-> 1, hi |-> n]>>

SegLen(g) == g.hi - g.lo + 1

RECURSIVE StrLen(_)
StrLen(s) == IF s = <<>> THEN 0 ELSE SegLen(Head(s)) + StrLen(Tail(s))

\* a + b
StrCat(a, b) ==
    IF a = <<>> THEN b
    ELSE IF b = <<>> THEN a
    ELSE LET x == a[Len(a)]
             y == Head(b)
         IN  IF x.src = y.src /\ x.hi + 1 = y.lo
             THEN SubSeq(a, 1, Len(a) - 1) \o <<[src |-> x.src, lo |-> x.lo, hi |-> y.hi]>> \o Tail(b)
             ELSE a \o b

\* s[:n]
RECURSIVE StrTake(_, _)
StrTake(s, n) ==
    IF n <= 0 \/ s = <<>> THEN <<>>
    ELSE IF SegLen(Head(s)) <= n
         THEN <<Head(s)>> \o StrTake(Tail(s), n - SegLen(Head(s)))
         ELSE <<[Head(s) EXCEPT !.hi = Head(s).lo + n - 1]>>

\* s[n:]
RECURSIVE StrDrop(_, _)
StrDrop(s, n) ==
    IF s = <<>> THEN <<>>
    ELSE IF n <= 0 THEN s
    ELSE IF SegLen(Head(s)) <= n
         THEN StrDrop(Tail(s), n - SegLen(Head(s)))
         ELSE <<[Head(s) EXCEPT !.lo = Head(s).lo + n]>> \o Tail(s)

(***************************************************************************)
(* send_html_content, lines 247-278 and 295: the composed message is cut   *)
(* into chunks and each chunk is handed to send_message.  (The link block  *)
(* of lines 280-293 is a further message and changes no chunk.)            *)
(***************************************************************************)
\* Line 139: the header is 35 characters and the ticker.
TickerLen(t) == IF t \in {"SOXL", "BRKU", "ARKK"} THEN 4 ELSE 3
HeaderLen(t) == 35 + TickerLen(t)

\* Line 273: the continuation marker, "(" + two letters + ")" + " ".
Marker == Text("marker", 5)

\* Line 248.
FullMessage(t, bodyLen) == StrCat(Text("header", HeaderLen(t)), Text("body", bodyLen))

\* Lines 258 and 264: remaining_text[:MAX_LENGTH]
ChunkOf(rest) == StrTake(rest, MAX_LENGTH)

\* Lines 260 and 265: remaining_text[MAX_LENGTH:]
RestAfterChunkOffByOne(rest) == StrDrop(rest, MAX_LENGTH + 1)

RestAfterChunk(rest) == StrDrop(rest, MAX_LENGTH)

\* Lines 272-273.
Payload(i, message) == IF i > 0 THEN StrCat(Marker, message) ELSE message

ChunkTickers == {"BLK", "SOXL"}

InitChunk ==
    /\ cTicker \in ChunkTickers
    /\ \E n \in 0..MaxBody : full_message = FullMessage(cTicker, n)
    /\ messages = <<>>
    /\ remaining_text = <<>>
    /\ ci = 0
    /\ payloads = <<>>
    /\ success = TRUE
    /\ cpc = "split"
    /\ entry = "main" /\ submitted = [given |-> FALSE, list |-> <<>>]
    /\ IdleBatch /\ IdleExtract /\ IdleMore

\* Lines 254-260.
SplitFirst ==
    /\ cpc = "split"
    /\ messages' = <<ChunkOf(full_message)>>
    /\ remaining_text' = RestAfterChunk(full_message)
    /\ cpc' = "loop"
    /\ UNCHANGED <<cTicker, full_message, ci, payloads, success, batchVars, extractVars, moreVars>>

\* Lines 263-266: one turn of the while loop.
SplitNext ==
    /\ cpc = "loop" /\ remaining_text # <<>>
    /\ messages' = Append(messages, ChunkOf(remaining_text))
    /\ remaining_text' = RestAfterChunk(remaining_text)
    /\ UNCHANGED <<cTicker, full_message, ci, payloads, success, cpc, batchVars, extractVars, moreVars>>

\* Lines 263, 269: the loop ends.
SplitDone ==
    /\ cpc = "loop" /\ remaining_text = <<>>
    /\ cpc' = "send"
    /\ ci' = 0
    /\ success' = TRUE
    /\ UNCHANGED <<cTicker, full_message, messages, remaining_text, payloads, batchVars,
                   extractVars, moreVars>>

\* Lines 270-278: one chunk is handed to send_message, which reports
\* success or failure.
SendChunk ==
    /\ cpc = "send" /\ ci < Len(messages)
    /\ payloads' = Append(payloads, Payload(ci, messages[ci + 1]))
    /\ \E ok \in BOOLEAN : success' = (success /\ ok)
    /\ ci' = ci + 1
    /\ UNCHANGED <<cTicker, full_message, messages, remaining_text, cpc, batchVars,
                   extractVars, moreVars>>

\* Line 295.
SendReturns ==
    /\ cpc = "send" /\ ci = Len(messages)
    /\ cpc' = "returned"
    /\ UNCHANGED <<cTicker, full_message, messages, remaining_text, ci, payloads, success,
                   batchVars, extractVars, moreVars>>

NextChunk == SplitFirst \/ SplitNext \/ SplitDone \/ SendChunk \/ SendReturns

SpecChunk == InitChunk /\ [][NextChunk]_vars

(***************************************************************************)
(* The delivery of a finished batch: main.run_scraper lines 63-91 with     *)
(* send_html_content (telegram_sender.py lines 118-299) inlined.  Every    *)
(* send_message call is logged with the result it reports.                 *)
(***************************************************************************)
DeliverTickers == {"IGV", "BLK"}

DeliverItems == [ticker : DeliverTickers, len : {ShortBody, LongBody}, links : BOOLEAN]

\* telegram_sender.py lines 254-266: the chunks of a message.
RECURSIVE SplitRest(_)
SplitRest(rest) ==
    IF rest = <<>> THEN <<>>
    ELSE <<ChunkOf(rest)>> \o SplitRest(RestAfterChunk(rest))

Messages(t, bodyLen) ==
    <<ChunkOf(FullMessage(t, bodyLen))>> \o SplitRest(RestAfterChunk(FullMessage(t, bodyLen)))

\* telegram_sender.py lines 270-278: the loop goes on to the next chunk
\* whatever send_message reported.
NextChunkStopsOnFailure(i, n, ok) == IF ok THEN i + 1 ELSE n

NextChunkIndex(i, n, ok) == i + 1

LogEntry(kind, i, c, ok) == [kind |-> kind, idx |-> i, chunk |-> c, ok |-> ok]

InitDeliver ==
    /\ dResults \in {q \in SeqsUpTo(DeliverItems, MaxDeliver) :
                        \A i, j \in 1..Len(q) : i # j => q[i].ticker # q[j].ticker}
    /\ dIdx = 0 /\ dCount = 0 /\ dChunk = 0 /\ dFailed = {}
    /\ dLog = <<>> /\ dReturn = "none" /\ dpc = "header"
    /\ entry = "main" /\ submitted = [given |-> FALSE, list |-> <<>>]
    /\ IdleBatch /\ IdleExtract /\ IdleChunk /\ IdleLink /\ IdleMention /\ IdleSend /\ IdleImage /\ IdleLate

\* main.py lines 65-69: the header message; its result is not looked at.
DeliverHeader ==
    /\ dpc = "header"
    /\ \E ok \in BOOLEAN : dLog' = Append(dLog, LogEntry("header", 0, 0, ok))
    /\ dIdx' = 1
    /\ dpc' = IF dResults = <<>> THEN "finish" ELSE "format"
    /\ UNCHANGED <<dResults, dCount, dChunk, dFailed, dReturn, batchVars, extractVars,
                   chunkVars, linkVars, mentionVars, sendVars, imageVars, lateVars>>

\* main.py lines 71-75, telegram_sender.py lines 130-266: the content is
\* sanitized and cut into chunks.
FormatResult ==
    /\ dpc = "format"
    /\ dCount' = Len(Messages(dResults[dIdx].ticker, dResults[dIdx].len))
    /\ dChunk' = 0
    /\ dpc' = "send"
    /\ UNCHANGED <<dResults, dIdx, dFailed, dLog, dReturn, batchVars, extractVars,
                   chunkVars, linkVars, mentionVars, sendVars, imageVars, lateVars>>

\* telegram_sender.py lines 297-299: the formatting raises; send_html_content
\* logs and returns False.
FormatRaises ==
    /\ dpc = "format"
    /\ dFailed' = dFailed \cup {dIdx}
    /\ dCount' = 0
    /\ dChunk' = 0
    /\ dpc' = "chart"
    /\ UNCHANGED <<dResults, dIdx, dLog, dReturn, batchVars, extractVars, chunkVars, linkVars, mentionVars, sendVars, imageVars, lateVars>>

\* telegram_sender.py lines 270-278: one chunk is sent.
SendOneChunk ==
    /\ dpc = "send" /\ dChunk < dCount
    /\ \E ok \in BOOLEAN :
        /\ dLog' = Append(dLog, LogEntry("chunk", dIdx, dChunk, ok))
        /\ dChunk' = NextChunkIndex(dChunk, dCount, ok)
    /\ UNCHANGED <<dResults, dIdx, dCount, dFailed, dReturn, dpc, batchVars, extractVars,
                   chunkVars, linkVars, mentionVars, sendVars, imageVars, lateVars>>

\* telegram_sender.py lines 281-295: the links message, if there are links;
\* send_html_content returns and main.py line 75 drops the returned flag.
ChunksSent ==
    /\ dpc = "send" /\ dChunk >= dCount
    /\ IF dResults[dIdx].links
       THEN \E ok \in BOOLEAN : dLog' = Append(dLog, LogEntry("links", dIdx, 0, ok))
       ELSE dLog' = dLog
    /\ dpc' = "chart"
    /\ UNCHANGED <<dResults, dIdx, dCount, dChunk, dFailed, dReturn, batchVars,
                   extractVars, chunkVars, linkVars, mentionVars, sendVars, imageVars, lateVars>>

\* main.py lines 77-84: the chart step (no data, sent, or an exception that
\* is caught and logged), the pause, and the next turn of the loop.
ChartStep ==
    /\ dpc = "chart"
    /\ \E c \in {"nodata", "sent", "failed", "raises"} :
        dLog' = IF c \in {"sent", "failed"}
                THEN Append(dLog, LogEntry("chart", dIdx, 0, c = "sent"))
                ELSE dLog
    /\ IF dIdx < Len(dResults)
       THEN dIdx' = dIdx + 1 /\ dpc' = "format"
       ELSE dIdx' = dIdx /\ dpc' = "finish"
    /\ UNCHANGED <<dResults, dCount, dChunk, dFailed, dReturn, batchVars, extractVars,
                   chunkVars, linkVars, mentionVars, sendVars, imageVars, lateVars>>

\* main.py lines 86-87.
DeliverReturns ==
    /\ dpc = "finish"
    /\ dReturn' = "True"
    /\ dpc' = "done"
    /\ UNCHANGED <<dResults, dIdx, dCount, dChunk, dFailed, dLog, batchVars, extractVars,
                   chunkVars, linkVars, mentionVars, sendVars, imageVars, lateVars>>

NextDeliver ==
    \/ DeliverHeader \/ FormatResult \/ FormatRaises \/ SendOneChunk \/ ChunksSent
    \/ ChartStep \/ DeliverReturns

SpecDeliver == InitDeliver /\ [][NextDeliver]_vars

(***************************************************************************)
(* Link normalization.  A link is a sequence of tokens: an origin          *)
(* ("https://invest.zum.com", "http://other.site"), "/", "#", path words,  *)
(* "?", "&", and query parameters written as a name token that ends in "=" *)
(* followed by a value token ("doctype=news" is one token, as the code     *)
(* looks for it as a whole).  The code's substring tests become token      *)
(* membership and its prefix tests look at the first token.                *)
(***************************************************************************)
Origin == "https://invest.zum.com"

Contains(link, tok) == \E k \in 1..Len(link) : link[k] = tok

StartsWithHttp(link) == link # <<>> /\ link[1] \in {Origin, "http://other.site"}

StartsWith(link, tok) == link # <<>> /\ link[1] = tok

\* scraper.py line 563, telegram_sender.py line 169.
BaseUrl(t) ==
    <<Origin, "/", (IF t \notin {"BLK", "IVZ"} THEN "etf" ELSE "stock"), "/", t, "/">>

\* scraper.py lines 565-579: the normalization of extract_news_links.
NormalizeScraper(t, link) ==
    LET abs == IF ~StartsWithHttp(link)
               THEN (IF StartsWith(link, "/") THEN <<Origin>> \o link ELSE BaseUrl(t) \o link)
               ELSE link
    IN  IF ~Contains(abs, "docid=") /\ ~Contains(abs, "doctype=news") /\ ~Contains(abs, "?")
        THEN abs \o <<"?", "doctype=news", "&", "docid=", "5384592",
                      "&", "isdomestic=", "false", "&", "istrending=", "false">>
        ELSE abs

\* telegram_sender.py lines 173-177.
EnsureDoctypeAlways(href) ==
    IF Contains(href, "?") THEN href \o <<"&", "doctype=news">>
    ELSE href \o <<"?", "doctype=news">>

EnsureDoctype(href) ==
    IF Contains(href, "doctype=news") THEN href
    ELSE IF Contains(href, "?") THEN href \o <<"&", "doctype=news">>
    ELSE href \o <<"?", "doctype=news">>

\* telegram_sender.py lines 179-186.
EnsureParam(href, name, value) ==
    IF Contains(href, name) THEN href ELSE href \o <<"&", name, value>>

\* telegram_sender.py lines 156-186: the href of one link element after the
\* processing of send_html_content (an anchor or script link is skipped and
\* keeps its href).
NormalizeTelegram(t, link) ==
    LET abs == IF StartsWith(link, "/") THEN <<Origin>> \o link ELSE link
        skipped == ~StartsWith(link, "/")
                   /\ (StartsWith(link, "#") \/ StartsWith(link, "javascript:"))
    IN  IF skipped THEN link
        ELSE IF Contains(abs, "docid=") \/ Contains(abs, "doctype=news")
        THEN LET full == IF ~StartsWithHttp(abs) THEN BaseUrl(t) \o abs ELSE abs
             IN  EnsureParam(EnsureParam(EnsureParam(EnsureDoctype(full),
                     "docid=", "5384592"), "isdomestic=", "false"), "istrending=", "false")
        ELSE abs

Normalize(which, t, link) ==
    IF which = "scraper" THEN NormalizeScraper(t, link) ELSE NormalizeTelegram(t, link)

\* The candidate links: a prefix, a path word and a query string made of
\* any of the parameters below, in this order.
LinkPrefixes == {<<Origin, "/">>, <<"http://other.site", "/">>, <<"/">>, <<>>, <<"#">>}

QueryParams == <<<<"x=", "1">>, <<"doctype=news">>, <<"docid=", "7">>,
                 <<"isdomestic=", "true">>, <<"istrending=", "true">>>>

RECURSIVE QueryString(_, _, _)
QueryString(chosen, k, first) ==
    IF k > Len(QueryParams) THEN <<>>
    ELSE IF k \in chosen
         THEN <<(IF first THEN "?" ELSE "&")>> \o QueryParams[k]
              \o QueryString(chosen, k + 1, FALSE)
         ELSE QueryString(chosen, k + 1, first)

CandidateLinks ==
    {pre \o <<"news">> \o QueryString(chosen, 1, TRUE) :
        pre \in LinkPrefixes, chosen \in SUBSET (1..Len(QueryParams))}

LinkTickers == {"IGV", "BLK"}

InitLink ==
    /\ lTicker \in LinkTickers
    /\ lWhich \in {"scraper", "telegram"}
    /\ lLink \in CandidateLinks
    /\ lOnce = <<>> /\ lTwice = <<>> /\ lpc = "fresh"
    /\ entry = "main" /\ submitted = [given |-> FALSE, list |-> <<>>]
    /\ IdleBatch /\ IdleExtract /\ IdleChunk /\ IdleDeliver /\ IdleMention /\ IdleSend /\ IdleImage /\ IdleLate

NormalizeLink ==
    /\ lpc = "fresh"
    /\ lOnce' = Normalize(lWhich, lTicker, lLink)
    /\ lpc' = "once"
    /\ UNCHANGED <<lTicker, lWhich, lLink, lTwice, batchVars, extractVars, chunkVars,
                   deliverVars, mentionVars, sendVars, imageVars, lateVars>>

NormalizeAgain ==
    /\ lpc = "once"
    /\ lTwice' = Normalize(lWhich, lTicker, lOnce)
    /\ lpc' = "twice"
    /\ UNCHANGED <<lTicker, lWhich, lLink, lOnce, batchVars, extractVars, chunkVars,
                   deliverVars, mentionVars, sendVars, imageVars, lateVars>>

NextLink == NormalizeLink \/ NormalizeAgain

SpecLink == InitLink /\ [][NextLink]_vars

(***************************************************************************)
(* The parsing of a constituent mention.  The briefing text of a stock     *)
(* item is a sequence of tokens: " ", ",", "%", words, numbers and the     *)
(* markers "stock" (the subject particle the code looks for), "rose",      *)
(* "fell" and "dollars".  The string operations of the code are computed   *)
(* on the tokens.                                                          *)
(***************************************************************************)
\* str.split(sep): the pieces between the occurrences of sep.
RECURSIVE SplitOn(_, _)
SplitOn(s, sep) ==
    IF ~Contains(s, sep) THEN <<s>>
    ELSE LET k == CHOOSE i \in 1..Len(s) : s[i] = sep /\ \A j \in 1..(i - 1) : s[j] # sep
         IN  <<SubSeq(s, 1, k - 1)>> \o SplitOn(SubSeq(s, k + 1, Len(s)), sep)

\* str.strip().
RECURSIVE Strip(_)
Strip(s) ==
    IF s = <<>> THEN s
    ELSE IF Head(s) = " " THEN Strip(Tail(s))
    ELSE IF s[Len(s)] = " " THEN Strip(SubSeq(s, 1, Len(s) - 1))
    ELSE s

\* str.replace(" ", "").
RemoveSpaces(s) == SelectSeq(s, LAMBDA c : c # " ")

\* str.split(): the words between runs of white space.
Words(s) == SelectSeq(SplitOn(s, " "), LAMBDA w : w # <<>>)

\* " ".join(words).
RECURSIVE JoinWords(_)
JoinWords(ws) ==
    IF ws = <<>> THEN <<>>
    ELSE IF Len(ws) = 1 THEN ws[1]
    ELSE ws[1] \o <<" ">> \o JoinWords(Tail(ws))

\* " stock " in text (line 236).
HasStockWord(s) ==
    \E k \in 2..(Len(s) - 1) : s[k] = "stock" /\ s[k - 1] = " " /\ s[k + 1] = " "

\* Lines 253-256, 258-261: the text before the marker and the price cut out
\* of the text after it.
AroundMarker(piece, marker) ==
    LET parts == SplitOn(piece, marker)
        price_parts == IF Len(parts) > 1 THEN SplitOn(parts[2], "dollars") ELSE <<>>
    IN  [before |-> parts[1],
         price |-> IF price_parts # <<>> THEN Strip(price_parts[1]) ELSE <<>>]

\* The sign text the code puts before the change: nothing for the "fell"
\* marker (lines 254, 273), "+" for the "rose" marker (lines 259, 278).
SignPrefix(marker) == IF marker = "rose" THEN <<"+">> ELSE <<>>

\* Lines 254, 259.
FirstChange(piece, marker) ==
    SignPrefix(marker) \o RemoveSpaces(Strip(AroundMarker(piece, marker).before))

\* Lines 247-262: the first pattern, on the second comma-separated piece.
FirstPattern(content) ==
    LET pcm == Strip(SplitOn(content, ",")[2])
    IN  IF Contains(pcm, "fell")
        THEN [change |-> FirstChange(pcm, "fell"), price |-> AroundMarker(pcm, "fell").price]
        ELSE IF Contains(pcm, "rose")
        THEN [change |-> FirstChange(pcm, "rose"), price |-> AroundMarker(pcm, "rose").price]
        ELSE [change |-> <<>>, price |-> <<>>]

\* Lines 272-273, 277-278.
AlternateChange(piece, marker) ==
    LET before == AroundMarker(piece, marker).before
    IN  IF Contains(before, "stock")
        THEN LET change_part == Strip(SplitOn(before, "stock")[2])
             IN  IF change_part # <<>> THEN SignPrefix(marker) \o RemoveSpaces(change_part)
                 ELSE <<>>
        ELSE <<>>

\* Lines 270-281: the alternate pattern, on the whole text.
AlternatePattern(content, first) ==
    IF Contains(content, "fell")
    THEN [change |-> AlternateChange(content, "fell"),
          price |-> AroundMarker(content, "fell").price]
    ELSE IF Contains(content, "rose")
    THEN [change |-> AlternateChange(content, "rose"),
          price |-> AroundMarker(content, "rose").price]
    ELSE first

\* Line 285: the condition under which the mention block is built.
EmitsWithoutChange(name, price, change) == name # <<>> /\ price # <<>>

Emits(name, price, change) == name # <<>> /\ price # <<>> /\ change # <<>>

\* Lines 216-289: the parsing of one stock item.
ParseMention(content, hasInfoDiv) ==
    IF ~(Contains(content, ",") /\ HasStockWord(content))
    THEN [skipped |-> TRUE, name |-> <<>>, price |-> <<>>, change |-> <<>>, header |-> <<>>]
    ELSE LET stock_parts == Words(SplitOn(content, ",")[1])
             stock_name == JoinWords(SubSeq(stock_parts, 4, Len(stock_parts)))
             first == FirstPattern(content)
             found == IF (first.price = <<>> \/ first.change = <<>>) /\ hasInfoDiv
                      THEN AlternatePattern(content, first)
                      ELSE first
         IN  [skipped |-> FALSE, name |-> stock_name, price |-> found.price,
              change |-> found.change,
              header |-> IF Emits(stock_name, found.price, found.change)
                         THEN <<"--- ">> \o stock_name \o <<" ---", "\n", "$">> \o found.price
                              \o <<" (">> \o found.change \o <<"%)">>
                         ELSE <<>>]

\* The briefing texts fed to the parser.  Each has the form of the page's
\* sentence "<date> <name> stock <magnitude>% rose|fell <price>dollars
\* closed", with the comma in one of four places, or lacks the magnitude or
\* the price.
MentionLayouts == {"commaAfterDate", "commaAfterName", "commaAfterStock", "commaTwice",
                   "noMagnitude", "noPrice"}

MentionInputs ==
    [layout : MentionLayouts, mag : {"1.5", "2.0"}, mark : {"rose", "fell"},
     price : {"878.42", "45.10"}, gap : BOOLEAN, info : BOOLEAN]

Mention(in) ==
    LET date == <<"2025y", " ", "03m", " ", "28d">>
        move == <<in.mag>> \o (IF in.gap THEN <<" ">> ELSE <<>>)
                \o <<"%", " ", in.mark, " ", in.price, "dollars", " ", "closed">>
    IN  CASE in.layout = "commaAfterDate" ->
               date \o <<",", " ", "Broadcom", " ", "stock", " ">> \o move
          [] in.layout = "commaAfterName" ->
               date \o <<" ", "Broadcom", ",", " ", "stock", " ">> \o move
          [] in.layout = "commaAfterStock" ->
               date \o <<" ", "Broadcom", " ", "stock", " ", ",", " ">> \o move
          [] in.layout = "noMagnitude" ->
               date \o <<" ", "Broadcom", " ", "stock", " ", ",", " ",
                         in.mark, " ", in.price, "dollars", " ", "closed">>
          [] in.layout = "noPrice" ->
               date \o <<" ", "Broadcom", " ", "stock", " ", ",", " ", in.mag, "%", " ", in.mark>>
          [] OTHER ->
               date \o <<" ", "Broadcom", ",", " ", "yesterday", ",", " ", "stock", " ">> \o move

InitMention ==
    /\ mInput \in MentionInputs
    /\ mParsed = <<>> /\ mpc = "item"
    /\ entry = "main" /\ submitted = [given |-> FALSE, list |-> <<>>]
    /\ IdleBatch /\ IdleExtract /\ IdleChunk /\ IdleDeliver /\ IdleLink /\ IdleSend /\ IdleImage /\ IdleLate

ParseItem ==
    /\ mpc = "item"
    /\ mParsed' = ParseMention(Mention(mInput), mInput.info)
    /\ mpc' = "parsed"
    /\ UNCHANGED <<mInput, batchVars, extractVars, chunkVars, deliverVars, linkVars, sendVars, imageVars, lateVars>>

NextMention == ParseItem

SpecMention == InitMention /\ [][NextMention]_vars

(***************************************************************************)
(* One call of send_message.  The text is a sequence of characters over    *)
(* "<", ">" and a letter, so that the tag-stripping substitution is        *)
(* computed as the regular expression does.                                *)
(***************************************************************************)
MsgChars == {"<", ">", "a"}

\* re.sub(r'<[^>]*>', '', text) (line 87): from the left, a "<" that is
\* followed by some ">" is removed together with everything up to the first
\* such ">"; any other character is kept.
RECURSIVE StripTags(_)
StripTags(text) ==
    IF text = <<>> THEN <<>>
    ELSE IF Head(text) = "<" /\ Contains(Tail(text), ">")
    THEN LET k == CHOOSE i \in 2..Len(text) : text[i] = ">" /\ \A j \in 2..(i - 1) : text[j] # ">"
         IN  StripTags(SubSeq(text, k + 1, Len(text)))
    ELSE <<Head(text)>> \o StripTags(Tail(text))

Request(text, mode) == [text |-> text, parse_mode |-> mode]

\* Line 84: a rejected send is retried only in HTML mode.
ShouldRetryAnyMode(mode) == TRUE

ShouldRetry(mode) == mode = "HTML"

InitSend ==
    /\ sText \in SeqsUpTo(MsgChars, MaxMsg)
    /\ sMode \in {"HTML", "Markdown", "None"}
    /\ sConfigured \in BOOLEAN
    /\ sRequests = <<>> /\ sResponses = <<>> /\ sReturn = "none" /\ spc = "start"
    /\ entry = "main" /\ submitted = [given |-> FALSE, list |-> <<>>]
    /\ IdleBatch /\ IdleExtract /\ IdleChunk /\ IdleDeliver /\ IdleLink /\ IdleMention /\ IdleImage /\ IdleLate

\* Lines 46-48: without a token or a chat id nothing is posted.
NotConfigured ==
    /\ spc = "start" /\ ~sConfigured
    /\ sReturn' = "False"
    /\ spc' = "done"
    /\ UNCHANGED <<sText, sMode, sConfigured, sRequests, sResponses, batchVars, extractVars,
                   chunkVars, deliverVars, linkVars, mentionVars, imageVars, lateVars>>

\* Lines 54-69: the first request is posted.
PostFirst ==
    /\ spc = "start" /\ sConfigured
    /\ sRequests' = Append(sRequests, Request(sText, sMode))
    /\ spc' = "first"
    /\ UNCHANGED <<sText, sMode, sConfigured, sResponses, sReturn, batchVars, extractVars,
                   chunkVars, deliverVars, linkVars, mentionVars, imageVars, lateVars>>

\* Lines 70-74: status 200 and ok.
FirstAccepted ==
    /\ spc = "first"
    /\ sResponses' = Append(sResponses, "ok")
    /\ sReturn' = "True"
    /\ spc' = "done"
    /\ UNCHANGED <<sText, sMode, sConfigured, sRequests, batchVars, extractVars,
                   chunkVars, deliverVars, linkVars, mentionVars, imageVars, lateVars>>

\* Lines 75-110: another status, or ok false.  In HTML mode the text without
\* its tags is posted once more, with no parse_mode; otherwise False.
FirstRejected ==
    /\ spc = "first"
    /\ sResponses' = Append(sResponses, "rejected")
    /\ IF ShouldRetry(sMode)
       THEN /\ sRequests' = Append(sRequests, Request(StripTags(sText), "None"))
            /\ spc' = "retry"
            /\ sReturn' = sReturn
       ELSE /\ sRequests' = sRequests
            /\ spc' = "done"
            /\ sReturn' = "False"
    /\ UNCHANGED <<sText, sMode, sConfigured, batchVars, extractVars,
                   chunkVars, deliverVars, linkVars, mentionVars, imageVars, lateVars>>

\* Lines 112-114: the transport raises (no connection, a body that is not
\* JSON); the handler returns False.
FirstRaises ==
    /\ spc = "first"
    /\ sResponses' = Append(sResponses, "raised")
    /\ sReturn' = "False"
    /\ spc' = "done"
    /\ UNCHANGED <<sText, sMode, sConfigured, sRequests, batchVars, extractVars,
                   chunkVars, deliverVars, linkVars, mentionVars, imageVars, lateVars>>

\* Lines 97-110, 112-114: the retry is accepted, rejected, or raises.
RetryEnds ==
    /\ spc = "retry"
    /\ \E r \in {"ok", "rejected", "raised"} :
        /\ sResponses' = Append(sResponses, r)
        /\ sReturn' = IF r = "ok" THEN "True" ELSE "False"
    /\ spc' = "done"
    /\ UNCHANGED <<sText, sMode, sConfigured, sRequests, batchVars, extractVars,
                   chunkVars, deliverVars, linkVars, mentionVars, imageVars, lateVars>>

NextSend ==
    \/ NotConfigured \/ PostFirst \/ FirstAccepted \/ FirstRejected \/ FirstRaises
    \/ RetryEnds

SpecSend == InitSend /\ [][NextSend]_vars

(***************************************************************************)
(* One call of send_briefing_as_image, with the sending part of the        *)
(* send_html_content call it falls back to.                                *)
(***************************************************************************)
Bool(b) == IF b THEN "True" ELSE "False"

ChannelCall(kind, ok) == [kind |-> kind, ok |-> ok]

InitImage ==
    /\ iItem \in DeliverItems
    /\ iPhotoOk = FALSE /\ iFallback = FALSE /\ iCount = 0 /\ iChunk = 0
    /\ iSuccess = TRUE /\ iLog = <<>> /\ iReturn = "none" /\ ipc = "create"
    /\ entry = "main" /\ submitted = [given |-> FALSE, list |-> <<>>]
    /\ IdleBatch /\ IdleExtract /\ IdleChunk /\ IdleDeliver /\ IdleLink /\ IdleMention /\ IdleLate
    /\ IdleSend

\* Lines 733-742: create_text_image returns the image, or nothing (it
\* catches its own exceptions, lines 715-717), and then the text is sent.
CreateImage ==
    /\ ipc = "create"
    /\ \E made \in BOOLEAN :
        /\ ipc' = IF made THEN "photo" ELSE "text"
        /\ iFallback' = ~made
    /\ UNCHANGED <<iItem, iPhotoOk, iCount, iChunk, iSuccess, iLog, iReturn, batchVars,
                   extractVars, chunkVars, deliverVars, linkVars, mentionVars, sendVars, lateVars>>

\* Lines 744-746, 767-770: a step between the creation and the return
\* raises; the handler sends the text.
ImageStepRaises ==
    /\ ipc \in {"photo", "links"}
    /\ ipc' = "text"
    /\ iFallback' = TRUE
    /\ UNCHANGED <<iItem, iPhotoOk, iCount, iChunk, iSuccess, iLog, iReturn, batchVars,
                   extractVars, chunkVars, deliverVars, linkVars, mentionVars, sendVars, lateVars>>

\* Line 749: send_photo reports success or failure (it never raises, lines
\* 356-358).
SendPhoto ==
    /\ ipc = "photo"
    /\ \E ok \in BOOLEAN :
        /\ iLog' = Append(iLog, ChannelCall("photo", ok))
        /\ iPhotoOk' = ok
    /\ ipc' = "links"
    /\ UNCHANGED <<iItem, iFallback, iCount, iChunk, iSuccess, iReturn, batchVars,
                   extractVars, chunkVars, deliverVars, linkVars, mentionVars, sendVars, lateVars>>

\* Lines 751-765: the links message after a sent image; image_success is
\* returned.
ImageReturns ==
    /\ ipc = "links"
    /\ IF iItem.links /\ iPhotoOk
       THEN \E ok \in BOOLEAN : iLog' = Append(iLog, ChannelCall("links", ok))
       ELSE iLog' = iLog
    /\ iReturn' = Bool(iPhotoOk)
    /\ ipc' = "done"
    /\ UNCHANGED <<iItem, iPhotoOk, iFallback, iCount, iChunk, iSuccess, batchVars,
                   extractVars, chunkVars, deliverVars, linkVars, mentionVars, sendVars, lateVars>>

\* Lines 738, 770 and send_html_content lines 130-269: the text is formatted
\* and cut into chunks.
TextFormatted ==
    /\ ipc = "text"
    /\ iCount' = Len(Messages(iItem.ticker, iItem.len))
    /\ iChunk' = 0
    /\ iSuccess' = TRUE
    /\ ipc' = "textsend"
    /\ UNCHANGED <<iItem, iPhotoOk, iFallback, iLog, iReturn, batchVars,
                   extractVars, chunkVars, deliverVars, linkVars, mentionVars, sendVars, lateVars>>

\* send_html_content lines 297-299: the formatting raises and False is
\* returned.
TextFormatRaises ==
    /\ ipc = "text"
    /\ iReturn' = "False"
    /\ ipc' = "done"
    /\ UNCHANGED <<iItem, iPhotoOk, iFallback, iCount, iChunk, iSuccess, iLog, batchVars,
                   extractVars, chunkVars, deliverVars, linkVars, mentionVars, sendVars, lateVars>>

\* send_html_content lines 270-278.
TextChunkSent ==
    /\ ipc = "textsend" /\ iChunk < iCount
    /\ \E ok \in BOOLEAN :
        /\ iLog' = Append(iLog, ChannelCall("text", ok))
        /\ iSuccess' = (iSuccess /\ ok)
        /\ iChunk' = NextChunkIndex(iChunk, iCount, ok)
    /\ UNCHANGED <<iItem, iPhotoOk, iFallback, iCount, iReturn, ipc, batchVars,
                   extractVars, chunkVars, deliverVars, linkVars, mentionVars, sendVars, lateVars>>

\* send_html_content lines 281-295, and lines 738, 770: its flag is returned.
TextReturns ==
    /\ ipc = "textsend" /\ iChunk >= iCount
    /\ IF iItem.links
       THEN \E ok \in BOOLEAN : iLog' = Append(iLog, ChannelCall("links", ok))
       ELSE iLog' = iLog
    /\ iReturn' = Bool(iSuccess)
    /\ ipc' = "done"
    /\ UNCHANGED <<iItem, iPhotoOk, iFallback, iCount, iChunk, iSuccess, batchVars,
                   extractVars, chunkVars, deliverVars, linkVars, mentionVars, sendVars, lateVars>>

NextImage ==
    \/ CreateImage \/ ImageStepRaises \/ SendPhoto \/ ImageReturns
    \/ TextFormatted \/ TextFormatRaises \/ TextChunkSent \/ TextReturns

SpecImage == InitImage /\ [][NextImage]_vars

(***************************************************************************)
(* The links message of send_html_content.  Lengths are counted in         *)
(* characters; a link is "<a href='" + href + "'>" + link_text + "</a>"    *)
(* with a link_text of at most 100 characters and is given by its length.  *)
(***************************************************************************)
\* telegram_sender.py line 287: the length above which the block is rebuilt.
LINKS_LIMIT == 4000

\* Line 290: links[:5].
KEPT_LINKS == 5

\* Line 282: the link symbol, " <b>", the ticker, " ", two words of two
\* letters with a blank between, "</b>" and two newlines.
LinksHeaderLen(t) == 17 + TickerLen(t)

\* Line 289: the same with " (", a word of two letters, " 5", a letter and
\* ")" before the newlines.
TruncatedHeaderLen(t) == 25 + TickerLen(t)

Digits(n) == IF n < 10 THEN 1 ELSE 2

\* Lines 284 and 291: f"{i+1}. {link}\n\n" for the i-th link (from 1 here).
ItemLen(i, link) == Digits(i) + 2 + link + 2

RECURSIVE ItemsLen(_, _)
ItemsLen(links, n) == IF n = 0 THEN 0 ELSE ItemsLen(links, n - 1) + ItemLen(n, links[n])

Min2(a, b) == IF a <= b THEN a ELSE b

\* Lines 282-291: links_text.
LinksText(t, links) ==
    LET full == LinksHeaderLen(t) + ItemsLen(links, Len(links))
    IN  IF full > LINKS_LIMIT
        THEN [len |-> TruncatedHeaderLen(t) + ItemsLen(links, Min2(KEPT_LINKS, Len(links))),
              truncated |-> TRUE]
        ELSE [len |-> full, truncated |-> FALSE]

BlockTickers == {"IGV", "SOXL"}

InitBlock ==
    /\ kTicker \in BlockTickers
    /\ kLinks \in SeqsUpTo({ShortLink, LongLink}, MaxLinks)
    /\ kText = <<>> /\ kSent = <<>> /\ kpc = "start"
    /\ entry = "main" /\ submitted = [given |-> FALSE, list |-> <<>>]
    /\ IdleBatch /\ IdleExtract /\ IdleChunk /\ IdleDeliver /\ IdleLink /\ IdleMention
    /\ IdleSend /\ IdleImage /\ IdleClean /\ IdleHand

\* Line 281: no link was collected, nothing is sent.
NoLinks ==
    /\ kpc = "start" /\ kLinks = <<>>
    /\ kpc' = "done"
    /\ UNCHANGED <<kTicker, kLinks, kText, kSent, batchVars, extractVars, chunkVars,
                   deliverVars, linkVars, mentionVars, sendVars, imageVars, cleanVars,
                   handVars>>

\* Lines 282-291.
BuildLinksText ==
    /\ kpc = "start" /\ kLinks # <<>>
    /\ kText' = LinksText(kTicker, kLinks)
    /\ kpc' = "built"
    /\ UNCHANGED <<kTicker, kLinks, kSent, batchVars, extractVars, chunkVars,
                   deliverVars, linkVars, mentionVars, sendVars, imageVars, cleanVars,
                   handVars>>

\* Line 293: send_message(links_text); its result is not looked at.
SendLinksText ==
    /\ kpc = "built"
    /\ kSent' = Append(kSent, kText.len)
    /\ kpc' = "done"
    /\ UNCHANGED <<kTicker, kLinks, kText, batchVars, extractVars, chunkVars,
                   deliverVars, linkVars, mentionVars, sendVars, imageVars, cleanVars,
                   handVars>>

NextBlock == NoLinks \/ BuildLinksText \/ SendLinksText

SpecBlock == InitBlock /\ [][NextBlock]_vars

(***************************************************************************)
(* The sanitizer of send_html_content.  The extracted text is a sequence   *)
(* of tokens: "a" (one letter), "word" (four letters), " ", "\n", "."      *)
(* (which stands for "#" as well: the code treats the two alike), "{" and  *)
(* "}".  Texts over these tokens have no entity, no "style=" and no        *)
(* "@media", so lines 218, 226 and 227 leave them as they are.             *)
(***************************************************************************)
BodyTokens == {"a", "word", " ", "\n", ".", "{", "}"}

IsLetter(c) == c \in {"a", "word"}

IsSpace(c) == c \in {" ", "\n"}

\* The first position from p on whose token is not in S (Len + 1 if none).
RECURSIVE RunEnd(_, _, _)
RunEnd(s, p, S) == IF p > Len(s) \/ s[p] \notin S THEN p ELSE RunEnd(s, p + 1, S)

\* Line 221, re.sub(r'\n\s*\n', '\n\n', ...): from the left, a newline that
\* is followed, within the same run of white space, by another newline is
\* replaced together with everything up to the last such newline.
RECURSIVE CollapseBlankLines(_, _)
CollapseBlankLines(s, p) ==
    IF p > Len(s) THEN <<>>
    ELSE LET e == RunEnd(s, p, {" ", "\n"})
             later == {q \in (p + 1)..(e - 1) : s[q] = "\n"}
         IN  IF s[p] = "\n" /\ later # {}
             THEN <<"\n", "\n">>
                  \o CollapseBlankLines(s, (CHOOSE q \in later : \A r \in later : r <= q) + 1)
             ELSE <<s[p]>> \o CollapseBlankLines(s, p + 1)

\* Line 222, re.sub(r'\s{2,}', ' ', ...): a run of two or more white space
\* characters, newlines included, becomes one blank.
RECURSIVE CollapseSpaces(_, _)
CollapseSpaces(s, p) ==
    IF p > Len(s) THEN <<>>
    ELSE IF IsSpace(s[p]) /\ p < Len(s) /\ IsSpace(s[p + 1])
         THEN <<" ">> \o CollapseSpaces(s, RunEnd(s, p, {" ", "\n"}))
         ELSE <<s[p]>> \o CollapseSpaces(s, p + 1)

\* The pattern [.#]?[a-zA-Z0-9_-]+\s*\{ matched at position p: the position
\* of the "{", or 0 if there is no match.
SelectorAt(s, p) ==
    LET q0 == IF p <= Len(s) /\ s[p] = "." THEN p + 1 ELSE p
        q1 == RunEnd(s, q0, {"a", "word"})
        q2 == RunEnd(s, q1, {" ", "\n"})
    IN  IF q1 > q0 /\ q2 <= Len(s) /\ s[q2] = "{" THEN q2 ELSE 0

\* Line 225, re.sub(r'[.#]?[a-zA-Z0-9_-]+\s*\{[^}]*\}', '', ...): from the
\* left, a selector with its "{" and everything up to the first "}" after it
\* is removed.
RECURSIVE RemoveRules(_, _)
RemoveRules(s, p) ==
    IF p > Len(s) THEN <<>>
    ELSE LET b == SelectorAt(s, p)
             closing == IF b = 0 THEN {} ELSE {q \in (b + 1)..Len(s) : s[q] = "}"}
         IN  IF closing # {}
             THEN RemoveRules(s, (CHOOSE q \in closing : \A r \in closing : q <= r) + 1)
             ELSE <<s[p]>> \o RemoveRules(s, p + 1)

\* Lines 221-227.
Preprocessed(body) == RemoveRules(CollapseSpaces(CollapseBlankLines(body, 1), 1), 1)

\* len(line).
RECURSIVE LineLen(_)
LineLen(line) ==
    IF line = <<>> THEN 0 ELSE (IF Head(line) = "word" THEN 4 ELSE 1) + LineLen(Tail(line))

\* Line 237: the test for a line that looks like a selector or like code.
LooksLikeCode(line) ==
    \/ SelectorAt(line, 1) # 0
    \/ (Contains(line, "{") /\ Contains(line, "}"))

\* Line 241: the test for a line that is kept.
KeepsLine(line) == LineLen(line) > 3 /\ line[1] \notin {".", "{"}

\* '\n'.join(lines).
RECURSIVE JoinLines(_)
JoinLines(lines) ==
    IF lines = <<>> THEN <<>>
    ELSE IF Len(lines) = 1 THEN lines[1]
    ELSE lines[1] \o <<"\n">> \o JoinLines(Tail(lines))

InitClean ==
    /\ zBody \in SeqsUpTo(BodyTokens, MaxTokens)
    /\ zLines = <<>> /\ zClean = <<>> /\ zText = <<>> /\ zpc = "raw"
    /\ entry = "main" /\ submitted = [given |-> FALSE, list |-> <<>>]
    /\ IdleBatch /\ IdleExtract /\ IdleChunk /\ IdleDeliver /\ IdleLink /\ IdleMention
    /\ IdleSend /\ IdleImage /\ IdleBlock /\ IdleHand

\* Lines 215-231: the substitutions and the split into lines.
SplitLines ==
    /\ zpc = "raw"
    /\ zLines' = SplitOn(Preprocessed(zBody), "\n")
    /\ zpc' = "loop"
    /\ UNCHANGED <<zBody, zClean, zText, batchVars, extractVars, chunkVars, deliverVars,
                   linkVars, mentionVars, sendVars, imageVars, blockVars, handVars>>

\* Lines 232-234: a line that is empty after trimming.
SkipEmptyLine ==
    /\ zpc = "loop" /\ zLines # <<>>
    /\ Strip(Head(zLines)) = <<>>
    /\ zLines' = Tail(zLines)
    /\ UNCHANGED <<zBody, zClean, zText, zpc, batchVars, extractVars, chunkVars,
                   deliverVars, linkVars, mentionVars, sendVars, imageVars, blockVars,
                   handVars>>

\* Lines 237-238.
SkipCodeLine ==
    /\ zpc = "loop" /\ zLines # <<>>
    /\ Strip(Head(zLines)) # <<>>
    /\ LooksLikeCode(Strip(Head(zLines)))
    /\ zLines' = Tail(zLines)
    /\ UNCHANGED <<zBody, zClean, zText, zpc, batchVars, extractVars, chunkVars,
                   deliverVars, linkVars, mentionVars, sendVars, imageVars, blockVars,
                   handVars>>

\* Lines 241-242: the line is appended to clean_lines.
KeepLine ==
    /\ zpc = "loop" /\ zLines # <<>>
    /\ Strip(Head(zLines)) # <<>>
    /\ ~LooksLikeCode(Strip(Head(zLines)))
    /\ KeepsLine(Strip(Head(zLines)))
    /\ zClean' = Append(zClean, Strip(Head(zLines)))
    /\ zLines' = Tail(zLines)
    /\ UNCHANGED <<zBody, zText, zpc, batchVars, extractVars, chunkVars, deliverVars,
                   linkVars, mentionVars, sendVars, imageVars, blockVars, handVars>>

\* Line 241: the test fails and the loop goes on to the next line.
PassOverLine ==
    /\ zpc = "loop" /\ zLines # <<>>
    /\ Strip(Head(zLines)) # <<>>
    /\ ~LooksLikeCode(Strip(Head(zLines)))
    /\ ~KeepsLine(Strip(Head(zLines)))
    /\ zLines' = Tail(zLines)
    /\ UNCHANGED <<zBody, zClean, zText, zpc, batchVars, extractVars, chunkVars,
                   deliverVars, linkVars, mentionVars, sendVars, imageVars, blockVars,
                   handVars>>

\* Line 245.
JoinClean ==
    /\ zpc = "loop" /\ zLines = <<>>
    /\ zText' = JoinLines(zClean)
    /\ zpc' = "done"
    /\ UNCHANGED <<zBody, zLines, zClean, batchVars, extractVars, chunkVars, deliverVars,
                   linkVars, mentionVars, sendVars, imageVars, blockVars, handVars>>

NextClean ==
    SplitLines \/ SkipEmptyLine \/ SkipCodeLine \/ KeepLine \/ PassOverLine \/ JoinClean

SpecClean == InitClean /\ [][NextClean]_vars

(***************************************************************************)
(* The hand-over of one scrape result to the formatter.  A result is a     *)
(* sequence of tokens: the ticker, ":", a newline and the briefing, which  *)
(* is made of ticker symbols, ":" and other text.                          *)
(***************************************************************************)
HandTickers == {"IGV", "BLK"}

NarrativeTokens == {"IGV", "BLK", ":", "text"}

\* scraper.py lines 429-435: a briefing that begins with the ticker and a
\* colon loses that one prefix, then the header is put in front.
ComposeResult(t, briefing) ==
    <<t, ":", "\n">> \o (IF Len(briefing) >= 2 /\ SubSeq(briefing, 1, 2) = <<t, ":">>
                         THEN SubSeq(briefing, 3, Len(briefing))
                         ELSE briefing)

InitHand ==
    /\ \E t \in HandTickers, briefing \in SeqsUpTo(NarrativeTokens, MaxNarrative) :
        /\ briefing # <<>>
        /\ hResult = ComposeResult(t, briefing)
    /\ hTicker = <<>> /\ hBody = <<>> /\ hpc = "result"
    /\ entry = "main" /\ submitted = [given |-> FALSE, list |-> <<>>]
    /\ IdleBatch /\ IdleExtract /\ IdleChunk /\ IdleDeliver /\ IdleLink /\ IdleMention
    /\ IdleSend /\ IdleImage /\ IdleBlock /\ IdleClean

\* main.py lines 72-75, scheduler.py lines 70-74: the ticker and the content
\* given to send_html_content.
HandOver ==
    /\ hpc = "result"
    /\ hTicker' = SplitTicker(hResult)
    /\ hBody' = ReplaceAll(hResult, SplitTicker(hResult) \o <<":">>)
    /\ hpc' = "handed"
    /\ UNCHANGED <<hResult, batchVars, extractVars, chunkVars, deliverVars, linkVars,
                   mentionVars, sendVars, imageVars, blockVars, cleanVars>>

NextHand == HandOver

SpecHand == InitHand /\ [][NextHand]_vars

(***************************************************************************)
(* The claims.                                                             *)
(***************************************************************************)
IsUnknown(x) == x \notin Range(default_order)

StartsWithTicker(r, t) == Len(r) >= 2 /\ r[1] = t /\ r[2] = ":"

IsBriefing(r) == Len(r) >= 4 /\ r[3] = "\n" /\ ~IsTimeoutText(r)

\* C1: while the aggregate timeout has not fired, scrape_all_tickers holds
\* exactly one result for every ticker it has finished, in processing order,
\* each beginning with that ticker and a colon, and the list it returns has
\* one result for every submitted ticker, whatever failed on the way.
C1_OneResultPerTicker ==
    (~timedOut /\ session # "none") =>
        /\ \A i \in 1..Len(results) : StartsWithTicker(results[i], tickers[i])
        /\ (pc = "scrape" /\ phase \in {"begin", "load", "settle", "extract"}
              => Len(results) = idx - 1)
        /\ (pc = "scrape" /\ phase = "pace" => Len(results) = idx)
        /\ (pc = "scrape" /\ phase = "return" => Len(results) = Len(tickers))
        /\ (pc # "scrape" => Len(results) = Len(tickers))

\* C1 witness: a returned batch of five in which a fetch failure and a
\* per-ticker timeout are each followed by a ticker that was extracted.
C1_Witness ==
    /\ ~timedOut /\ pc = "send_header" /\ Len(results) = 5
    /\ \E i, j, k \in 1..5 :
        /\ i < k /\ j < k
        /\ results[i] = ErrorResult(tickers[i], "load")
        /\ IsTimeoutText(results[j])
        /\ IsBriefing(results[k])

\* C2: for every ticker, a fetch+extract that took longer than the
\* per-ticker timeout ends in the TIMEOUT fallback whose URL ends in the
\* ticker's canonical section path.
C2_EveryTickerTimesOut ==
    (pc = "scrape" /\ phase = "pace" /\ now - tstart > PER_TICKER_TIMEOUT) =>
        /\ Len(results) = idx
        /\ IsTimeoutText(results[idx])
        /\ EndsInUrl(results[idx], FetchSection(Cur), Cur)

C4_TimeoutMarkedAndDelivered ==
    (timedOut /\ pc = "done") =>
        /\ (entry = "main" => outcome = "False")
        /\ Len(sent) >= 1
        /\ sent[1].text[1] = "timeout notice, affected: "
        /\ \A i \in (Len(kept) + 1)..Len(tickers) :
            \E j \in 2..Len(sent) :
                /\ StartsWithTicker(sent[j].text, tickers[i])
                /\ IsTimeoutText(sent[j].text)
                /\ \E sec \in {"etf", "stock"} : EndsInUrl(sent[j].text, sec, tickers[i])

\* C5: under both runners the list handed to scrape_all_tickers is in the
\* canonical priority order, whatever the submitted order.
C5_CanonicalOrderBothEntries ==
    pc = "create" =>
        \A i, j \in 1..Len(tickers) : i < j => SortKey(tickers[i]) <= SortKey(tickers[j])

\* C6: in main.run_scraper every submitted ticker that is not in the
\* canonical list comes after all canonical ones, and the unknown tickers
\* keep their submission order.
C6_UnknownLastStable ==
    (entry = "main" /\ pc = "create" /\ submitted.given) =>
        /\ Len(tickers) = Len(submitted.list)
        /\ \A i, j \in 1..Len(tickers) :
            (i < j /\ IsUnknown(tickers[i])) => IsUnknown(tickers[j])
        /\ SelectSeq(tickers, IsUnknown) = SelectSeq(submitted.list, IsUnknown)

\* C6 witness: two unknown tickers submitted before a canonical one.
C6_Witness ==
    /\ entry = "main" /\ pc = "create"
    /\ submitted.list = <<"QQQ", "ARKK", "IGV">>
    /\ tickers = <<"IGV", "QQQ", "ARKK">>

\* C7: main.run_scraper always ends by returning a boolean.
C7_AlwaysReturnsBoolean ==
    (entry = "main" /\ pc = "done") => outcome \in {"True", "False"}

\* C8 as stated: any failure inside get_zum_briefing yields the ERROR result
\* carrying the exception's message.
C8_AnyFailureGivesError ==
    (xpc = "returned" /\ FaultHits(xTicker, xPage, xFault)) =>
        xResult = <<xTicker, ":", " error - ", xFault>>

\* C8 as amended: get_zum_briefing always returns a string that begins with
\* the ticker and a colon; a failure of the page load, the snapshot, the
\* parse, the gap-fill or the composition yields the ERROR result with the
\* exception's message, while a failure inside one stock item's
\* mention/news parsing or inside the link extraction is absorbed where it
\* happens and does not by itself yield the ERROR result.
C8_ErrorsCaptured ==
    xpc = "returned" =>
        /\ StartsWithTicker(xResult, xTicker)
        /\ (FaultHits(xTicker, xPage, xFault) =>
              IF xFault \in {"item", "links"}
              THEN ~IsError(xResult)
              ELSE xResult = <<xTicker, ":", " error - ", xFault>>)

\* C8 witness: an exception inside a stock item's parsing, on a page whose
\* briefing is then returned without that item's blocks.
C8_Witness ==
    /\ xpc = "returned" /\ xFault = "item" /\ FaultHits(xTicker, xPage, xFault)
    /\ IsBriefing(xResult)
    /\ "mention-block" \notin Range(xResult)

\* C9: no narrative chunk payload handed to send_message, continuation
\* marker included, is longer than MAX_LENGTH.
C9_PayloadWithinMax ==
    \A i \in 1..Len(payloads) : StrLen(payloads[i]) <= MAX_LENGTH

StripMarker(i, p) == IF i > 1 /\ StrTake(p, StrLen(Marker)) = Marker
                     THEN StrDrop(p, StrLen(Marker)) ELSE p

RECURSIVE JoinStripped(_, _)
JoinStripped(ps, n) ==
    IF n = 0 THEN <<>> ELSE StrCat(JoinStripped(ps, n - 1), StripMarker(n, ps[n]))

\* C10: the payloads sent, with the continuation marker removed from all
\* but the first, concatenate to the composed message; the first payload is
\* the first MAX_LENGTH characters unmodified, no chunk is empty, and there
\* are exactly as many chunks as the length needs.
C10_RoundTrip ==
    cpc = "returned" =>
        /\ JoinStripped(payloads, Len(payloads)) = full_message
        /\ payloads[1] = StrTake(full_message, MAX_LENGTH)
        /\ \A i \in 1..Len(payloads) : StrLen(StripMarker(i, payloads[i])) > 0
        /\ (Len(payloads) - 1) * MAX_LENGTH < StrLen(full_message)
        /\ StrLen(full_message) <= Len(payloads) * MAX_LENGTH

\* C10 witness: a message whose length is an exact multiple of MAX_LENGTH,
\* sent as two chunks.
C10_Witness ==
    /\ cpc = "returned"
    /\ StrLen(full_message) = 2 * MAX_LENGTH
    /\ Len(payloads) = 2

\* The (result index, chunk index) pairs of the chunk sends logged so far.
ChunkAttempts ==
    LET chunks == SelectSeq(dLog, LAMBDA e : e.kind = "chunk")
    IN  [k \in 1..Len(chunks) |-> <<chunks[k].idx, chunks[k].chunk>>]

NumChunks(i) == Len(Messages(dResults[i].ticker, dResults[i].len))

\* Every chunk, in order, of the first k results whose formatting did not raise.
RECURSIVE ExpectedChunks(_)
ExpectedChunks(k) ==
    IF k = 0 THEN <<>>
    ELSE ExpectedChunks(k - 1)
         \o (IF k \in dFailed THEN <<>> ELSE [c \in 1..NumChunks(k) |-> <<k, c - 1>>])

\* The number of results send_html_content has returned for.
Delivered ==
    CASE dpc \in {"format", "send"} -> dIdx - 1
      [] dpc \in {"chart", "finish", "done"} -> IF dIdx <= Len(dResults) THEN dIdx ELSE Len(dResults)
      [] OTHER -> 0

SomeChunkSent(i) == \E k \in 1..Len(dLog) : dLog[k].kind = "chunk" /\ dLog[k].idx = i /\ dLog[k].ok

\* C11 (as stated): when main.run_scraper returns True, every ticker of the
\* batch had at least one chunk sent successfully.
C11_FlagRequiresDelivery ==
    (dpc = "done" /\ dReturn = "True") => \A i \in 1..Len(dResults) : SomeChunkSent(i)

\* C18 (as stated): a result whose formatting failed inside send_html_content
\* produced exactly one message, the error notice, on the channel.
C18_FormatFailureSendsNotice ==
    dpc = "done" =>
        \A i \in dFailed :
            Cardinality({k \in 1..Len(dLog) : dLog[k].idx = i
                                               /\ dLog[k].kind \in {"chunk", "notice"}}) = 1

\* C19: whatever the sends report, the chunk sends made so far are exactly
\* every chunk, in order, of every result already handled plus the chunks
\* already reached of the current one: a failed send neither skips a later
\* chunk or ticker nor removes an earlier send from the channel.
C19_FailuresIsolated ==
    dpc # "idle" =>
        ChunkAttempts =
            ExpectedChunks(Delivered)
            \o (IF dpc = "send" THEN [c \in 1..dChunk |-> <<dIdx, c - 1>>] ELSE <<>>)

\* Two results of two chunks each were delivered to the end although the
\* first chunk of the first result failed.
C19_Witness ==
    /\ dpc = "done" /\ Len(dResults) = 2 /\ dFailed = {}
    /\ NumChunks(1) = 2 /\ NumChunks(2) = 2
    /\ \E k \in 1..Len(dLog) : dLog[k].kind = "chunk" /\ dLog[k].idx = 1
                                /\ dLog[k].chunk = 0 /\ ~dLog[k].ok
    /\ Len(ChunkAttempts) = 4

Occurrences(link, tok) == Cardinality({k \in 1..Len(link) : link[k] = tok})

ParamNames == {"x=", "doctype=news", "docid=", "isdomestic=", "istrending="}

\* C12: normalizing an already normalized link returns it unchanged, and no
\* query parameter occurs twice in it, for both normalizations and every
\* candidate link.
C12_NormalizeIdempotent ==
    lpc = "twice" =>
        /\ lTwice = lOnce
        /\ \A name \in ParamNames : Occurrences(lTwice, name) <= 1

\* A path-relative link that carries a docid only was completed by
\* send_html_content with the base address and the three missing parameters,
\* and normalized again.
C12_Witness ==
    /\ lpc = "twice" /\ lWhich = "telegram"
    /\ lLink = <<"news", "?", "docid=", "7">>
    /\ lOnce # lLink
    /\ StartsWithHttp(lOnce)
    /\ Contains(lOnce, "doctype=news") /\ Contains(lOnce, "isdomestic=")

\* C13 (as stated): a parsed mention has the price as written and a change
\* that is the sign of its marker ("+" for rose, "-" for fell) followed by
\* the magnitude and nothing else.
C13_CleanSignedChange ==
    (mpc = "parsed" /\ ~mParsed.skipped /\ mParsed.change # <<>>) =>
        /\ mParsed.price = <<mInput.price>>
        /\ mParsed.change = <<(IF mInput.mark = "rose" THEN "+" ELSE "-"), mInput.mag>>

\* Lines 138-142: one of the known containers is found for this ticker.
KnownContainer(t, page) ==
    page.c1 # "absent" \/ (t \in {"BLK", "IVZ"} /\ page.c2 # "absent")

\* Text a strategy can use: not empty and not cut to nothing at the marker.
Usable(kind) == kind \in {"text", "dateMid"}

\* C14 (as stated): for BLK and IVZ, a page without the primary heading whose
\* known container (either class) is present but empty yields, on any run
\* date, a briefing that is not the EMPTY placeholder and carries the
\* gap-fill sentence.
C14_GapFillNeverEmpty ==
    (/\ xpc = "returned" /\ xFault = "none" /\ xTicker \in {"BLK", "IVZ"}
     /\ xPage.h3 = "absent"
     /\ (xPage.c1 = "blank" \/ (xPage.c1 = "absent" /\ xPage.c2 = "blank")))
    => /\ ~IsEmpty(xResult)
       /\ Contains(xResult, "gapfill-sentence")

\* C20 (as stated, its particular case): when the primary heading is found
\* but its section has no text, a known container with usable text still
\* gives a briefing.
C20_EmptyPrimaryFallsBack ==
    (/\ xpc = "returned" /\ xFault = "none"
     /\ xPage.h3 = "blank" /\ Usable(xPage.c1))
    => ~IsEmpty(xResult)

\* C20 (amended): a strategy is tried exactly when the previous ones found no
\* element.  A primary section that is found decides the result alone (EMPTY
\* when it has no text); otherwise a known container that is found decides
\* it alone (EMPTY when its text is empty or is cut to nothing, the gap-fill
\* case apart), whatever the generic search would find; the generic marker
\* search decides the result only when no known container exists.
C20_ChainStopsAtFoundElement ==
    (xpc = "returned" /\ xFault = "none" /\ xPage.h3 # "noDiv") =>
        /\ PrimaryFound(xPage) => (IsEmpty(xResult) <=> xPage.h3 = "blank")
        /\ (~PrimaryFound(xPage) /\ KnownContainer(xTicker, xPage)) =>
              (IsEmpty(xResult) <=>
                  LET k == IF xPage.c1 # "absent" THEN xPage.c1 ELSE xPage.c2
                  IN  \/ k = "dateFirst"
                      \/ k = "blank" /\ ~(GapFillRuns(xTicker, xPage) /\ xPage.year # 2025))
        /\ (~PrimaryFound(xPage) /\ ~KnownContainer(xTicker, xPage)) =>
              (IsEmpty(xResult) <=> ~Usable(xPage.gen))

\* A page without the heading whose known container is empty, while a block
\* the generic search would accept has text: the result is EMPTY.
C20_Witness ==
    /\ xpc = "returned" /\ xFault = "none" /\ xTicker = "IGV"
    /\ xPage.h3 = "absent" /\ xPage.c1 = "blank" /\ xPage.gen = "text"
    /\ IsEmpty(xResult)

\* C15 (as stated): in scrape_all_tickers every step that adds a ticker's
\* result (briefing, EMPTY, captured error, per-ticker fallback, or the error
\* result of the orchestrator's own handler) is followed by the pacing delay.
C15_PacingAfterEveryResult ==
    [][(pc = "scrape" /\ pc' = "scrape" /\ results' # results) => phase' = "pace"]_vars

\* A tag: a "<" with a ">" somewhere after it.
HasTag(text) == \E i, j \in 1..Len(text) : i < j /\ text[i] = "<" /\ text[j] = ">"

\* C16: a call posts at most two requests; a second request is posted
\* exactly when the first was rejected in HTML mode, it carries the text with
\* every tag stripped and no parse_mode, and its outcome is the call's
\* result; in any other mode a rejected send returns False at once.
C16_RetryAtMostOnce ==
    /\ Len(sRequests) <= 2
    /\ Len(sRequests) = 2 =>
          /\ sMode = "HTML" /\ sResponses[1] = "rejected"
          /\ sRequests[2].parse_mode = "None"
          /\ ~HasTag(sRequests[2].text)
          /\ sRequests[2].text = StripTags(sText)
    /\ spc = "done" =>
          /\ (Len(sResponses) >= 1 /\ sResponses[1] = "rejected" /\ sMode = "HTML") =>
                /\ Len(sRequests) = 2 /\ Len(sResponses) = 2
                /\ sReturn = (IF sResponses[2] = "ok" THEN "True" ELSE "False")
          /\ (Len(sResponses) >= 1 /\ sResponses[1] = "rejected" /\ sMode # "HTML") =>
                /\ Len(sRequests) = 1 /\ sReturn = "False"

\* A rejected HTML message with a tag was sent again without it, and the
\* retry was accepted.
C16_Witness ==
    /\ spc = "done" /\ sMode = "HTML" /\ sText = <<"<", "a", ">", "a">>
    /\ Len(sRequests) = 2 /\ sRequests[2].text = <<"a">>
    /\ sResponses = <<"rejected", "ok">> /\ sReturn = "True"

PhotoDelivered == \E k \in 1..Len(iLog) : iLog[k].kind = "photo" /\ iLog[k].ok

\* C17 (as stated): when send_briefing_as_image returns without the image
\* having been delivered (no image was created, a step raised, or send_photo
\* reported failure), the briefing was sent through send_html_content.
C17_TextFallbackOnAnyFailure ==
    (ipc = "done" /\ ~PhotoDelivered) => iFallback

\* The kind of text of the block the extractor locates (before the cut at the
\* date marker): the primary section if it is found, else the alternative
\* block; "absent" if no block is located.
LocatedKind(t, page) ==
    IF PrimaryFound(page) THEN page.h3
    ELSE IF page.c1 # "absent" THEN page.c1
    ELSE IF t \in {"BLK", "IVZ"} /\ page.c2 # "absent" THEN page.c2
    ELSE page.gen

\* C21 (as stated): the EMPTY placeholder is returned only when the located
\* block has no text; a block whose text is not empty, the text that begins
\* with the date marker included, gives a briefing.
C21_EmptyOnlyWithoutText ==
    (xpc = "returned" /\ xFault = "none" /\ IsEmpty(xResult)) =>
        LocatedKind(xTicker, xPage) \in {"absent", "blank"}

\* C22 (as stated): a page with stock items and script links gets the
\* mention blocks, news items and links appended to its briefing whichever
\* strategy located the block.
C22_PostProcessingUniform ==
    (/\ xpc = "returned" /\ xFault = "none" /\ IsBriefing(xResult)
     /\ xPage.items = "some" /\ xPage.links = "some")
    => /\ Contains(xResult, "mention-block") /\ Contains(xResult, "news-item")
       /\ Contains(xResult, "news-links")

C24_LinksCarryBothMarkers ==
    (lpc # "fresh" /\ lWhich = "scraper") =>
        /\ StartsWithHttp(lOnce)
        /\ Contains(lOnce, "doctype=news")
        /\ Contains(lOnce, "docid=")

\* C25: the links message given to send_message is never longer than the
\* maximum chunk length.
C25_LinkBlockFits == \A i \in 1..Len(kSent) : kSent[i] <= MAX_LENGTH

\* C26: the section of a ticker is the same wherever it is used: every
\* timeout fallback, per-ticker or aggregate, names in its address the
\* section of the ticker's fetch address, which is also the section of the
\* base address of the link normalization.
C26_SectionSameEverywhere ==
    /\ \A t \in Universe : BaseUrl(t)[3] = FetchSection(t)
    /\ \A i \in 1..Len(results) :
        IsTimeoutText(results[i]) => EndsInUrl(results[i], FetchSection(tickers[i]), tickers[i])

\* The lines of the text the loop of the sanitizer looks at, trimmed.
RECURSIVE TrimmedLines(_)
TrimmedLines(lines) ==
    IF lines = <<>> THEN <<>> ELSE <<Strip(Head(lines))>> \o TrimmedLines(Tail(lines))

\* A line that looks like a selector or a rule: the test of the loop, or a
\* line that begins with ".", "#" or "{".
LooksLikeCss(line) == LooksLikeCode(line) \/ line[1] \in {".", "{"}

\* C27: the sanitized text consists, in their order, of all the lines that
\* are neither empty after trimming nor like a selector or a rule, however
\* short they are.
C27_OnlyEmptyOrCssDropped ==
    zpc = "done" =>
        zClean = SelectSeq(TrimmedLines(SplitOn(Preprocessed(zBody), "\n")),
                           LAMBDA line : line # <<>> /\ ~LooksLikeCss(line))

\* C28: a timeout acts only while the scraping is suspended in the settle
\* delay or in the pacing delay.  A step that appends a per-ticker timeout
\* fallback starts in the settle delay, a step that raises the aggregate
\* timeout starts in the settle or the pacing delay, and the step taken
\* after a completed settle delay appends the extracted result of the
\* ticker, whatever the time at its end.
C28_TimeoutsOnlyAtAwaits ==
    [][/\ (~timedOut /\ timedOut') => (pc = "scrape" /\ phase \in {"settle", "pace"})
       /\ (/\ pc = "scrape" /\ ~timedOut' /\ Len(results') = Len(results) + 1
           /\ IsTimeoutText(results'[Len(results')])) => phase = "settle"
       /\ (pc = "scrape" /\ phase = "extract") =>
            /\ pc' = "scrape" /\ phase' = "pace" /\ idx' = idx
            /\ Len(results') = idx
            /\ SubSeq(results', 1, idx - 1) = results
            /\ StartsWithTicker(results'[idx], Cur)
            /\ ~IsTimeoutText(results'[idx])]_vars

\* C28 witness: the extraction of a ticker with its own timeout ended after
\* that timeout's deadline and the extracted briefing is the result appended.
C28_Witness ==
    /\ pc = "scrape" /\ phase = "pace" /\ Wrapped(Cur)
    /\ now - tstart > PER_TICKER_TIMEOUT
    /\ Len(results) = idx
    /\ IsBriefing(results[idx])

\* C29: a session that was created is open as long as the run scrapes or
\* delivers, is closed when the run has ended, and is closed by one step
\* only, the step that ends the run; that step is taken after the scraping
\* and after the delivery or the fallback delivery, so no fetch is made on a
\* closed session.
C29_SessionClosedOnce ==
    /\ [](/\ pc \in {"scrape", "send_header", "deliver", "timeout_notice",
                     "timeout_send", "close"} => session = "open"
          /\ (pc = "done" /\ session # "none") => session = "closed"
          /\ session = "closed" => pc = "done")
    /\ [][session' # session =>
            \/ (pc = "create" /\ session = "none" /\ session' = "open")
            \/ (pc = "close" /\ session = "open" /\ session' = "closed" /\ pc' = "done")]_vars

\* C29 witness: a run of main whose delivery raised has ended with the
\* session closed.
C29_Witness ==
    /\ pc = "done" /\ session = "closed" /\ entry = "main"
    /\ ~timedOut /\ outcome = "False"

\* C30: the ticker handed to the formatter is the ticker of the result, and
\* the content handed over is the result without its leading ticker and
\* colon and nothing else removed.
C30_OnlyLeadingHeaderRemoved ==
    hpc = "handed" =>
        /\ hTicker = <<hResult[1]>>
        /\ hBody = SubSeq(hResult, 3, Len(hResult))
====
